---------------------------- MODULE Spec2Model ----------------------------
(***************************************************************************)
(* A model of the farm-advisory backend services: the notification        *)
(* service (notification-service.tsx, and the reduced notification-       *)
(* service.ts the API layer imports), the IoT ingest service              *)
(* (iot-service.ts) and the sensor-data handler of the API layer.         *)
(*                                                                         *)
(* The key-value store is the services' only state: every variable below  *)
(* is the content of one family of keys.  Sensor values are fixed-point   *)
(* numbers in tenths of the sensor's unit (a soil moisture of 10 % is     *)
(* 100), so that the soil_ph thresholds 5.5 and 7.8 are integers.         *)
(***************************************************************************)
EXTENDS Integers, Sequences, FiniteSets, TLC

VARIABLES
    subscription,       \* notifications:subscription:<userId>
    queue,              \* notifications:queue:<type>
    userNotifications,  \* notifications:user:<userId>
    totalSent,          \* notifications:system:stats .totalSent
    farmUsers,          \* farm:users:<farmId>      (only read by the services)
    cropUsers,          \* crop:users:<crop>        (only read by the services)
    allUsers,           \* notifications:all_users  (only read by the services)
    rawData,            \* iot:<farmId>:<sensorId>:<timestamp>
    latest,             \* iot:latest:<farmId>:<sensorType>
    daily,              \* iot:daily:<farmId>:<sensorType>:<date>
    procs,              \* the ingest requests in flight, each at its await
    today,              \* the calendar day of the wall clock
    now,                \* the wall clock, Date.now()
    stored,             \* history: how many notifications were ever stored
    ingested,           \* history: the samples each aggregate key was handed
    ingests,            \* history: how many ingests were started
    subscribes,         \* history: how many subscribe calls were made
    previous,           \* history: the channels a user's last subscribe replaced
    lastCall,           \* history: the last operation and its result
    dashboard,          \* the Dashboard component: its state and its fetch
    farmProfile,        \* farm:profile:<farmId>
    notifCalls,         \* the notification calls in flight, each at its await
    market,             \* market:prices:<crop>:<region>, and the market's clock
    panel               \* the CropDiagnosis component: its state, its requests

vars == <<subscription, queue, userNotifications, totalSent, farmUsers,
          cropUsers, allUsers, rawData, latest, daily, procs, today, now,
          stored, ingested, ingests, subscribes, previous, lastCall,
          dashboard, farmProfile, notifCalls, market, panel>>

notifVars == <<subscription, queue, userNotifications, totalSent, stored,
               subscribes, previous>>
indexVars == <<farmUsers, cropUsers, allUsers>>
iotVars   == <<rawData, latest, daily, procs, ingested, ingests>>
clientVars == <<dashboard>>
profileVars == <<farmProfile>>
otherVars == <<notifCalls, market, panel>>

-----------------------------------------------------------------------------
(* Bounds of the model *)

MaxStored == 2      \* notifications stored in one behaviour of Spec
MaxSubscribes == 3  \* subscribe calls in one behaviour of Spec
MaxClock == 1       \* ticks of the wall clock
Extra == 5          \* notifications inserted beyond the cap in SpecCap
MaxIngests == 3     \* ingests in one behaviour of the ingest specifications
MaxHandlerIngests == 1  \* sensor-data requests in one behaviour of Spec
MaxDay == 2         \* calendar days the wall clock goes through
MaxChannels == 3    \* channels listed in one notification in SpecCalls

(* Program constants *)

MAX_NOTIFICATIONS == 100
LOW_BATTERY == 20
PRICE_CHANGE_THRESHOLD == 5

Users == {"u1", "u2"}
Farms == {"f1", "f2"}
Crops == {"tomato"}
Channels == {"push", "email", "sms"}


-----------------------------------------------------------------------------
(* Optional values and the key-value store *)

None == <<>>                \* undefined, null, or an absent key
Some(x) == <<x>>
IsSome(o) == o # <<>>
Get(o) == o[1]

\* x || d, for x an object or an array (always truthy when present)
OrDefault(o, d) == IF o = None THEN d ELSE o[1]

EmptyStore == [k \in {} |-> None]

\* kv.get(key): the stored value, or absent
kvGet(m, k) == IF k \in DOMAIN m THEN Some(m[k]) ELSE None

\* kv.get(key) || d
kvGetOr(m, k, d) == IF k \in DOMAIN m THEN m[k] ELSE d

\* kv.set(key, value)
kvSet(m, k, v) == [x \in (DOMAIN m) \cup {k} |-> IF x = k THEN v ELSE m[x]]

Contains(s, x) == \E i \in 1..Len(s) : s[i] = x
Range(s) == {s[i] : i \in 1..Len(s)}
Min(a, b) == IF a <= b THEN a ELSE b
Max(a, b) == IF a >= b THEN a ELSE b

-----------------------------------------------------------------------------
(* IoT ingest: iot-service.ts *)

SensorTypes == {"soil_moisture", "soil_temperature", "soil_ph",
                "air_temperature", "humidity", "light_intensity"}

\* the threshold table of analyzeForAlerts, in tenths; None for a sensor
\* type the table does not hold
thresholds(sensorType) ==
    CASE sensorType = "soil_moisture" ->
           Some([critical_low |-> 150, warning_low |-> 250,
                 warning_high |-> 750, critical_high |-> 850])
      [] sensorType = "soil_temperature" ->
           Some([critical_low |-> 100, warning_low |-> 150,
                 warning_high |-> 320, critical_high |-> 400])
      [] sensorType = "soil_ph" ->
           Some([critical_low |-> 50, warning_low |-> 55,
                 warning_high |-> 78, critical_high |-> 85])
      [] sensorType = "air_temperature" ->
           Some([critical_low |-> 50, warning_low |-> 100,
                 warning_high |-> 380, critical_high |-> 450])
      [] sensorType = "humidity" ->
           Some([critical_low |-> 250, warning_low |-> 350,
                 warning_high |-> 800, critical_high |-> 900])
      [] sensorType = "light_intensity" ->
           Some([critical_low |-> 50000, warning_low |-> 150000,
                 warning_high |-> 700000, critical_high |-> 900000])
      [] OTHER -> None

actions(sensorType) ==
    CASE sensorType = "soil_moisture" ->
           Some([critical_low |-> "Immediate irrigation required",
                 warning_low |-> "Schedule irrigation within 24 hours",
                 warning_high |-> "Check drainage, reduce irrigation",
                 critical_high |-> "Stop irrigation, improve drainage immediately"])
      [] sensorType = "soil_temperature" ->
           Some([critical_low |-> "Protect crops from cold, consider heating",
                 warning_low |-> "Monitor for cold stress",
                 warning_high |-> "Increase shade, mulching recommended",
                 critical_high |-> "Emergency cooling required"])
      [] sensorType = "soil_ph" ->
           Some([critical_low |-> "Apply lime to increase pH",
                 warning_low |-> "Consider pH adjustment",
                 warning_high |-> "Apply sulfur or organic matter",
                 critical_high |-> "Immediate pH correction needed"])
      [] sensorType = "air_temperature" ->
           Some([critical_low |-> "Frost protection measures needed",
                 warning_low |-> "Monitor for cold damage",
                 warning_high |-> "Provide shade, increase ventilation",
                 critical_high |-> "Emergency cooling and shade required"])
      [] sensorType = "humidity" ->
           Some([critical_low |-> "Increase irrigation, misting",
                 warning_low |-> "Monitor plant stress",
                 warning_high |-> "Improve ventilation",
                 critical_high |-> "Prevent fungal diseases, reduce moisture"])
      [] sensorType = "light_intensity" ->
           Some([critical_low |-> "Supplement with artificial lighting",
                 warning_low |-> "Monitor for reduced photosynthesis",
                 warning_high |-> "Provide shade during peak hours",
                 critical_high |-> "Immediate shade protection required"])
      [] OTHER -> None

\* actions[sensorType]?.[alertType] || 'Monitor and take appropriate action'
getActionForAlert(sensorType, alertType) ==
    IF actions(sensorType) = None
    THEN "Monitor and take appropriate action"
    ELSE Get(actions(sensorType))[alertType]

\* readings.batteryLevel || null: an absent level and a level of 0 both
\* become null
normalizeSensorData(sensorData) ==
    [farmId |-> sensorData.farmId,
     sensorId |-> sensorData.sensorId,
     sensorType |-> sensorData.sensorType,
     timestamp |-> sensorData.timestamp,
     value |-> sensorData.readings.value,
     batteryLevel |-> IF sensorData.readings.batteryLevel = None
                         \/ Get(sensorData.readings.batteryLevel) = 0
                      THEN None
                      ELSE sensorData.readings.batteryLevel]

ValueAlert(type, severity, message, action) ==
    [type |-> type, severity |-> severity, message |-> message,
     action |-> action]

\* thresholdAlerts with the bounds themselves left out of the low tiers
thresholdAlertsStrict(sensorType, threshold, value) ==
    IF value < threshold.critical_low
    THEN <<ValueAlert("critical", "high", "critically low",
                      getActionForAlert(sensorType, "critical_low"))>>
    ELSE IF value < threshold.warning_low
    THEN <<ValueAlert("warning", "medium", "below optimal",
                      getActionForAlert(sensorType, "warning_low"))>>
    ELSE IF value >= threshold.critical_high
    THEN <<ValueAlert("critical", "high", "critically high",
                      getActionForAlert(sensorType, "critical_high"))>>
    ELSE IF value >= threshold.warning_high
    THEN <<ValueAlert("warning", "medium", "above optimal",
                      getActionForAlert(sensorType, "warning_high"))>>
    ELSE <<>>

\* the if / else-if chain over the four tiers
thresholdAlerts(sensorType, threshold, value) ==
    IF value <= threshold.critical_low
    THEN <<ValueAlert("critical", "high", "critically low",
                      getActionForAlert(sensorType, "critical_low"))>>
    ELSE IF value <= threshold.warning_low
    THEN <<ValueAlert("warning", "medium", "below optimal",
                      getActionForAlert(sensorType, "warning_low"))>>
    ELSE IF value >= threshold.critical_high
    THEN <<ValueAlert("critical", "high", "critically high",
                      getActionForAlert(sensorType, "critical_high"))>>
    ELSE IF value >= threshold.warning_high
    THEN <<ValueAlert("warning", "medium", "above optimal",
                      getActionForAlert(sensorType, "warning_high"))>>
    ELSE <<>>

\* data.batteryLevel && data.batteryLevel < 20
batteryAlerts(data) ==
    IF /\ data.batteryLevel # None
       /\ Get(data.batteryLevel) # 0
       /\ Get(data.batteryLevel) < LOW_BATTERY
    THEN <<ValueAlert("maintenance", "low", "Low battery",
                      "Replace or recharge sensor battery")>>
    ELSE <<>>

\* an unknown sensor type returns before the battery check
analyzeForAlerts(farmId, sensorType, data) ==
    IF thresholds(sensorType) = None
    THEN <<>>
    ELSE thresholdAlerts(sensorType, Get(thresholds(sensorType)), data.value)
           \o batteryAlerts(data)

\* the alerts processSensorData returns for a payload
ingestAlerts(sensorData) ==
    analyzeForAlerts(sensorData.farmId, sensorData.sensorType,
                     normalizeSensorData(sensorData))

\* the aggregate updateDailyAggregates starts from when the key is absent
newAggregate(date, farmId, sensorType, data) ==
    [date |-> date, farmId |-> farmId, sensorType |-> sensorType,
     count |-> 0, sum |-> 0, min |-> data.value, max |-> data.value,
     values |-> <<>>, average |-> None]

\* accumulate that leaves min and max as the first reading set them
accumulateKeepBounds(aggregate, data) ==
    [aggregate EXCEPT
       !.count = aggregate.count + 1,
       !.sum = aggregate.sum + data.value,
       !.values = Append(aggregate.values,
                         [timestamp |-> data.timestamp, value |-> data.value]),
       !.average = Some(<<aggregate.sum + data.value, aggregate.count + 1>>)]

\* the update of the aggregate read; the average sum / count is kept as the
\* exact fraction <<sum, count>>
accumulate(aggregate, data) ==
    [aggregate EXCEPT
       !.count = aggregate.count + 1,
       !.sum = aggregate.sum + data.value,
       !.min = Min(aggregate.min, data.value),
       !.max = Max(aggregate.max, data.value),
       !.values = Append(aggregate.values,
                         [timestamp |-> data.timestamp, value |-> data.value]),
       !.average = Some(<<aggregate.sum + data.value, aggregate.count + 1>>)]

dataKey(data) == <<data.farmId, data.sensorId, data.timestamp>>

\* one latest pointer per farm, whatever the sensor type
latestKeyPerFarm(farmId, sensorType) == <<farmId, "soil_moisture">>

\* iot:latest:<farmId>:<sensorType>
latestKey(farmId, sensorType) == <<farmId, sensorType>>

aggregateKey(farmId, sensorType, date) == <<farmId, sensorType, date>>


-----------------------------------------------------------------------------
(* Notification service: notification-service.tsx *)

DefaultTypes == <<"price_alerts", "weather_warnings", "crop_recommendations">>
ScheduledTypes == <<"weather_updates", "market_updates", "crop_reminders">>
DefaultQuietHours == [start |-> <<22, 0>>, end |-> <<6, 0>>]

\* the record subscribe stores: every field the caller left out takes its
\* default; a time of day 'HH:MM' is the pair <<HH, MM>>
subscriptionData(sub) ==
    [userId |-> sub.userId,
     farmId |-> sub.farmId,
     notificationTypes |-> OrDefault(sub.notificationTypes, DefaultTypes),
     channels |-> OrDefault(sub.channels, <<"push">>),
     preferences |->
        [frequency |-> IF sub.preferences = None
                       THEN "immediate"
                       ELSE OrDefault(Get(sub.preferences).frequency, "immediate"),
         quietHours |-> IF sub.preferences = None
                        THEN DefaultQuietHours
                        ELSE OrDefault(Get(sub.preferences).quietHours,
                                       DefaultQuietHours)],
     isActive |-> TRUE]

\* the subscriber queues after subscribe has gone through the types in order
RECURSIVE enqueue(_, _, _)
enqueue(q, types, userId) ==
    IF types = <<>>
    THEN q
    ELSE LET subscribers == kvGetOr(q, Head(types), <<>>)
         IN  enqueue(IF Contains(subscribers, userId)
                     THEN q
                     ELSE kvSet(q, Head(types), Append(subscribers, userId)),
                     Tail(types), userId)

\* a notification as the senders build it; serial is history (the order of
\* storage), set when the notification is stored
Notification(prefix, userId, type, channels, time) ==
    [id |-> <<prefix, time>>, userId |-> userId, type |-> type,
     channels |-> channels, timestamp |-> time,
     status |-> "pending", read |-> FALSE, serial |-> 0]

\* parseInt(t.split(':')[0])
parseHour(t) == t[1]

\* the quiet-hours test of shouldSendScheduledNotification
inQuietHours(currentHour, quietStart, quietEnd) ==
    currentHour >= quietStart \/ currentHour <= quietEnd

\* frequencyAllows with Sunday for the day of the weekly notifications
frequencyAllowsSunday(frequency, day) ==
    IF frequency = "never" THEN FALSE
    ELSE IF frequency = "weekly" /\ day # 0 THEN FALSE
    ELSE TRUE

\* the frequency test of shouldSendScheduledNotification; day 1 is Monday
frequencyAllows(frequency, day) ==
    IF frequency = "never" THEN FALSE
    ELSE IF frequency = "weekly" /\ day # 1 THEN FALSE
    ELSE TRUE

shouldSendScheduledNotification(sub, currentHour, day) ==
    IF inQuietHours(currentHour,
                    parseHour(sub.preferences.quietHours.start),
                    parseHour(sub.preferences.quietHours.end))
    THEN FALSE
    ELSE frequencyAllows(sub.preferences.frequency, day)

\* storeNotification that cuts one place too late
storeNotificationOffByOne(userList, notification) ==
    LET list == <<notification>> \o userList
    IN  IF Len(list) > MAX_NOTIFICATIONS + 1
        THEN SubSeq(list, 1, MAX_NOTIFICATIONS + 1)
        ELSE list

\* unshift, then splice(100) when the list is longer than 100
storeNotification(userList, notification) ==
    LET list == <<notification>> \o userList
    IN  IF Len(list) > MAX_NOTIFICATIONS
        THEN SubSeq(list, 1, MAX_NOTIFICATIONS)
        ELSE list

\* deliverFrom with one try around the whole loop: the first send that
\* raises ends the loop
RECURSIVE deliverFromOneTry(_, _, _, _)
deliverFromOneTry(channels, i, raising, results) ==
    IF i > Len(channels)
    THEN results
    ELSE IF channels[i] \in raising
    THEN kvSet(results, channels[i], "failed")
    ELSE deliverFromOneTry(channels, i + 1, raising,
                           IF channels[i] \in Channels
                           THEN kvSet(results, channels[i], "sent")
                           ELSE results)

\* the loop of deliverToChannels from channel i on: each send is tried on
\* its own, a send that raises is recorded as failed; raising is the set of
\* channels whose send raises.  An unknown channel matches no case of the
\* switch and leaves no entry.
RECURSIVE deliverFrom(_, _, _, _)
deliverFrom(channels, i, raising, results) ==
    IF i > Len(channels)
    THEN results
    ELSE deliverFrom(channels, i + 1, raising,
           IF channels[i] \in raising
           THEN kvSet(results, channels[i], "failed")
           ELSE IF channels[i] \in Channels
           THEN kvSet(results, channels[i], "sent")
           ELSE results)

\* deliverToChannels: iterating a notification without a channels list
\* raises a TypeError outside the per-channel try
deliverToChannels(notification, raising) ==
    IF notification.channels = None
    THEN [threw |-> TRUE, results |-> EmptyStore]
    ELSE [threw |-> FALSE,
          results |-> deliverFrom(Get(notification.channels), 1, raising,
                                  EmptyStore)]

\* Array.prototype.sort with (a, b) => time(b) - time(a): a stable sort,
\* newest first
RECURSIVE insertByTime(_, _)
insertByTime(sorted, n) ==
    IF sorted = <<>> THEN <<n>>
    ELSE IF Head(sorted).timestamp >= n.timestamp
    THEN <<Head(sorted)>> \o insertByTime(Tail(sorted), n)
    ELSE <<n>> \o sorted

RECURSIVE sortNewestFirst(_)
sortNewestFirst(list) ==
    IF list = <<>> THEN <<>>
    ELSE insertByTime(sortNewestFirst(SubSeq(list, 1, Len(list) - 1)),
                      list[Len(list)])

\* markDelivered that takes a fetched notification for a read one
markDeliveredAndRead(list) ==
    [i \in 1..Len(list) |->
        IF list[i].status = "pending"
        THEN [list[i] EXCEPT !.status = "delivered", !.read = TRUE]
        ELSE list[i]]

\* the loop of getUserNotifications that marks pending as delivered
markDelivered(list) ==
    [i \in 1..Len(list) |->
        IF list[i].status = "pending"
        THEN [list[i] EXCEPT !.status = "delivered"]
        ELSE list[i]]

\* notifications.find(n => n.id === notificationId): its index, 0 if none
findById(list, notificationId) ==
    IF \E i \in 1..Len(list) : list[i].id = notificationId
    THEN CHOOSE i \in 1..Len(list) :
            /\ list[i].id = notificationId
            /\ \A j \in 1..(i - 1) : list[j].id # notificationId
    ELSE 0

\* the users among an index list whose subscription is active and lists the
\* notification type (getUsersForFarm, getUsersForCrop)
subscribedAmong(userList, subs, notificationType) ==
    SelectSeq(userList,
              LAMBDA u : /\ kvGet(subs, u) # None
                         /\ subs[u].isActive
                         /\ Contains(subs[u].notificationTypes, notificationType))

getUsersForFarm(farmId, notificationType) ==
    subscribedAmong(kvGetOr(farmUsers, farmId, <<>>), subscription,
                    notificationType)

getUsersForCrop(crop, notificationType) ==
    subscribedAmong(kvGetOr(cropUsers, crop, <<>>), subscription,
                    notificationType)

getAllActiveUsers ==
    SelectSeq(kvGetOr(allUsers, "all", <<>>),
              LAMBDA u : kvGet(subscription, u) # None /\ subscription[u].isActive)

\* an alert handed to sendAlerts: its type decides who is affected
getAffectedUsers(alert) ==
    CASE alert.type = "system_maintenance" -> getAllActiveUsers
      [] alert.type = "farm_specific" -> getUsersForFarm(alert.farmId, "system_alerts")
      [] alert.type = "crop_specific" -> getUsersForCrop(alert.crop, "system_alerts")
      [] OTHER -> <<>>

\* the lists after storeAndDeliverNotification has stored the items one
\* after the other; base is the number of notifications stored before
RECURSIVE storeAll(_, _, _)
storeAll(lists, items, base) ==
    IF items = <<>>
    THEN lists
    ELSE LET n == [Head(items) EXCEPT !.serial = base + 1]
         IN  storeAll(kvSet(lists, n.userId,
                            storeNotification(kvGetOr(lists, n.userId, <<>>), n)),
                      Tail(items), base + 1)


-----------------------------------------------------------------------------
(* Inputs *)

Procs == {"p1", "p2"}
IdleProc == [pc |-> "idle", data |-> None, key |-> None, aggregate |-> None]

\* what the index keys hold: the services only read them, so their content
\* is given from outside
Directories ==
    { [farmUsers |-> EmptyStore, cropUsers |-> EmptyStore,
       allUsers |-> EmptyStore],
      [farmUsers |-> ("f1" :> <<"u1", "u2">>),
       cropUsers |-> ("tomato" :> <<"u1">>),
       allUsers |-> ("all" :> <<"u1", "u2">>)] }

SubscribeChoices ==
    { [notificationTypes |-> None, channels |-> None, preferences |-> None],
      [notificationTypes |->
          Some(<<"weather_updates", "crop_recommendations", "weather_warnings",
                 "sensor_alerts", "system_alerts", "price_alerts">>),
       channels |-> Some(<<"email">>),
       preferences |-> Some([frequency |-> Some("daily"), quietHours |-> None])],
      [notificationTypes |-> Some(<<"weather_updates">>),
       channels |-> Some(<<"sms", "email">>),
       preferences |->
          Some([frequency |-> Some("weekly"),
                quietHours |-> Some([start |-> <<9, 0>>, end |-> <<17, 0>>])])] }

SubscribeInputs ==
    { [userId |-> u, farmId |-> "f1",
       notificationTypes |-> c.notificationTypes,
       channels |-> c.channels,
       preferences |-> c.preferences] : u \in Users, c \in SubscribeChoices }

\* the subscriptions of the inbox specification: every field left out
InboxSubscribeInputs ==
    { [userId |-> u, farmId |-> "f1", notificationTypes |-> None,
       channels |-> None, preferences |-> None] : u \in Users }

Hours == 0..23
Days == 0..6            \* Date.getDay(): 0 is Sunday, 1 is Monday

\* the hours and days at which the scheduler runs in Spec
ScheduleHours == {6, 7, 12, 22}
ScheduleDays == {0, 1}

ChangePercents == {-12, 3, 5}

AlertInputs ==
    { [type |-> "system_maintenance", farmId |-> "f1", crop |-> "tomato"],
      [type |-> "farm_specific", farmId |-> "f1", crop |-> "tomato"],
      [type |-> "crop_specific", farmId |-> "f1", crop |-> "tomato"],
      [type |-> "critical", farmId |-> "f1", crop |-> "tomato"] }

HandlerReadings ==
    { [farmId |-> "f1", sensorId |-> "sensor_soil_moisture_001",
       sensorType |-> "soil_moisture", timestamp |-> <<1, 0>>,
       readings |-> [value |-> v, batteryLevel |-> None]] : v \in {100, 500} }

-----------------------------------------------------------------------------
(* Dashboard component: Dashboard.tsx, fetchDashboardData *)

Branches == {"weather", "recommendations", "sensors"}

\* what a request answers when it succeeds
Responses(branch) ==
    CASE branch = "weather" ->
            {[temperature |-> 28, humidity |-> 65],
             [temperature |-> 31, humidity |-> 40]}
      [] branch = "recommendations" ->
            {[recommendations |-> <<"Tomatoes">>],
             [recommendations |-> <<"Cotton", "Wheat">>]}
      [] branch = "sensors" ->
            {[sensors |-> [soil_moisture |-> 42]],
             [sensors |-> [soil_moisture |-> 10]]}

\* how a request ends: with a response, or failed
Outcomes(branch) ==
    {[ok |-> TRUE, response |-> r] : r \in Responses(branch)}
       \cup {[ok |-> FALSE]}

\* the value the .catch handler of a branch returns
fallback(branch) ==
    CASE branch = "weather" -> None
      [] branch = "recommendations" -> Some([recommendations |-> <<>>])
      [] branch = "sensors" -> None

\* a branch without its .catch handler
notCaught(branch, outcome) ==
    IF outcome.ok
    THEN [rejected |-> FALSE, value |-> Some(outcome.response)]
    ELSE [rejected |-> TRUE, value |-> None]

\* the promise of a branch, request(...).catch(err => fallback), once the
\* request has ended
caught(branch, outcome) ==
    IF outcome.ok
    THEN [rejected |-> FALSE, value |-> Some(outcome.response)]
    ELSE [rejected |-> FALSE, value |-> fallback(branch)]

MockRecommendations == <<"Tomatoes", "Cotton">>
MockWeather == [temperature |-> 28, humidity |-> 65, rainfall |-> 12]
MockSoil == [soil_ph |-> 68, soil_moisture |-> 42]

\* the component after useState: loading, and nothing to show
DashboardMounted ==
    [pc |-> "mounted", loading |-> TRUE, error |-> None,
     weatherData |-> None, recommendations |-> <<>>, soilData |-> None,
     settled |-> [b \in Branches |-> None],
     outcome |-> [b \in Branches |-> None]]

-----------------------------------------------------------------------------
(* The parts modelled on their own: what each is at the start *)

NotifCallIds == {"c1", "c2"}

IdleCall == [pc |-> "idle"]

\* no notification call in flight; issued and marked are history: the
\* notifications the store calls were given and the ids marked read
NoNotifCalls ==
    [flight |-> [c \in NotifCallIds |-> IdleCall], issued |-> <<>>, marked |-> {}]

\* nothing cached; clock is the wall clock in minutes, generated counts the
\* calls of fetchMarketPrices
MarketStarted == [cache |-> EmptyStore, clock |-> 0, generated |-> 0]

\* useState(null), useState(false), useState(null); readers are the files
\* being read, requests the analyses in flight; uploads counts the files
\* handed in and fresh tells that one was handed in since the last reset
PanelMounted ==
    [selectedImage |-> None, analyzing |-> FALSE, results |-> None,
     readers |-> {}, requests |-> {}, uploads |-> 0, fresh |-> FALSE]

-----------------------------------------------------------------------------
(* The initial state: an empty store, but for the index keys *)

Init ==
    /\ subscription = EmptyStore
    /\ queue = EmptyStore
    /\ userNotifications = EmptyStore
    /\ totalSent = 0
    /\ \E d \in Directories :
          /\ farmUsers = d.farmUsers
          /\ cropUsers = d.cropUsers
          /\ allUsers = d.allUsers
    /\ rawData = EmptyStore
    /\ latest = EmptyStore
    /\ daily = EmptyStore
    /\ procs = [p \in Procs |-> IdleProc]
    /\ today = 1
    /\ now = 0
    /\ stored = 0
    /\ ingested = EmptyStore
    /\ ingests = 0
    /\ subscribes = 0
    /\ previous = EmptyStore
    /\ lastCall = [op |-> "none"]
    /\ dashboard = DashboardMounted
    /\ farmProfile = EmptyStore
    /\ notifCalls = NoNotifCalls
    /\ market = MarketStarted
    /\ panel = PanelMounted

-----------------------------------------------------------------------------
(* Operations of the notification service, each a whole handler *)

\* storeAndDeliverNotification for each item in turn: store, deliver (the
\* simulated senders never raise), count in the system statistics
StoreAndDeliver(items) ==
    /\ userNotifications' = storeAll(userNotifications, items, stored)
    /\ stored' = stored + Len(items)
    /\ totalSent' = totalSent + Len(items)

Subscribe(sub) ==
    /\ subscribes < MaxSubscribes
    /\ subscribes' = subscribes + 1
    /\ previous' = IF sub.userId \in DOMAIN subscription
                   THEN kvSet(previous, sub.userId,
                              subscription[sub.userId].channels)
                   ELSE previous
    /\ subscription' = kvSet(subscription, sub.userId, subscriptionData(sub))
    /\ queue' = enqueue(queue, subscriptionData(sub).notificationTypes, sub.userId)
    /\ lastCall' = [op |-> "subscribe", status |-> "subscribed"]
    /\ UNCHANGED <<userNotifications, totalSent, stored, indexVars, profileVars, otherVars, clientVars, iotVars,
                   today, now>>

DoSendCropRecommendations(userId) ==
    LET sub == kvGet(subscription, userId)
    IN  /\ IF \/ sub = None
              \/ ~Get(sub).isActive
              \/ ~Contains(Get(sub).notificationTypes, "crop_recommendations")
           THEN /\ lastCall' = [op |-> "sendCropRecommendations",
                                status |-> "not_subscribed"]
                /\ UNCHANGED <<userNotifications, stored, totalSent>>
           ELSE /\ StoreAndDeliver(<<Notification("crop_rec", userId,
                                        "crop_recommendations",
                                        Some(Get(sub).channels), now)>>)
                /\ lastCall' = [op |-> "sendCropRecommendations",
                                status |-> "sent"]
        /\ UNCHANGED <<subscription, queue, subscribes, previous, indexVars, profileVars, otherVars, clientVars,
                       iotVars, today, now>>

SendCropRecommendations(userId) ==
    /\ stored < MaxStored
    /\ DoSendCropRecommendations(userId)

SendWeatherAlert(farmId) ==
    LET subscribedUsers == getUsersForFarm(farmId, "weather_warnings")
        items == [i \in 1..Len(subscribedUsers) |->
                    Notification("weather", subscribedUsers[i],
                                 "weather_warnings", Some(<<"push", "sms">>), now)]
    IN  /\ stored < MaxStored
        /\ StoreAndDeliver(items)
        /\ lastCall' = [op |-> "sendWeatherAlert", status |-> "sent"]
        /\ UNCHANGED <<subscription, queue, subscribes, previous, indexVars, profileVars, otherVars, clientVars,
                       iotVars, today, now>>

SendPriceAlert(crop, changePercent) ==
    LET interestedUsers == getUsersForCrop(crop, "price_alerts")
        abs == IF changePercent < 0 THEN -changePercent ELSE changePercent
        notified == IF abs >= PRICE_CHANGE_THRESHOLD THEN interestedUsers ELSE <<>>
        items == [i \in 1..Len(notified) |->
                    Notification("price", notified[i], "price_alerts",
                                 Some(subscription[notified[i]].channels), now)]
    IN  /\ stored < MaxStored
        /\ StoreAndDeliver(items)
        /\ lastCall' = [op |-> "sendPriceAlert", status |-> "sent"]
        /\ UNCHANGED <<subscription, queue, subscribes, previous, indexVars, profileVars, otherVars, clientVars,
                       iotVars, today, now>>

SendSensorAlert(farmId) ==
    LET subscribedUsers == getUsersForFarm(farmId, "sensor_alerts")
        items == [i \in 1..Len(subscribedUsers) |->
                    Notification("sensor", subscribedUsers[i],
                                 "sensor_alerts", Some(<<"push">>), now)]
    IN  /\ stored < MaxStored
        /\ StoreAndDeliver(items)
        /\ lastCall' = [op |-> "sendSensorAlert", status |-> "sent"]
        /\ UNCHANGED <<subscription, queue, subscribes, previous, indexVars, profileVars, otherVars, clientVars,
                       iotVars, today, now>>

\* sendAlerts -> processAlert -> sendNotificationToUser: the notification
\* has no channels field, so storeAndDeliverNotification stores it for the
\* first affected user and then raises in deliverToChannels, before the
\* statistics; the exception ends sendAlerts
SendAlerts(alerts) ==
    LET hit == {i \in 1..Len(alerts) : getAffectedUsers(alerts[i]) # <<>>}
    IN  /\ stored < MaxStored
        /\ IF hit = {}
           THEN /\ lastCall' = [op |-> "sendAlerts", status |-> "processed"]
                /\ UNCHANGED <<userNotifications, stored, totalSent>>
           ELSE LET first == CHOOSE i \in hit : \A j \in hit : i <= j
                    affectedUsers == getAffectedUsers(alerts[first])
                    n == Notification("alert", Head(affectedUsers),
                                      "system_alert", None, now)
                IN  IF deliverToChannels(n, {}).threw
                    THEN /\ userNotifications' =
                               storeAll(userNotifications, <<n>>, stored)
                         /\ stored' = stored + 1
                         /\ UNCHANGED totalSent
                         /\ lastCall' = [op |-> "sendAlerts", status |-> "threw"]
                    ELSE /\ StoreAndDeliver(
                               [i \in 1..Len(affectedUsers) |->
                                   Notification("alert", affectedUsers[i],
                                                "system_alert", None, now)])
                         /\ lastCall' = [op |-> "sendAlerts", status |-> "processed"]
        /\ UNCHANGED <<subscription, queue, subscribes, previous, indexVars, profileVars, otherVars, clientVars,
                       iotVars, today, now>>

\* the notifications processScheduledNotificationType builds for one type
scheduledItems(type, currentHour, day) ==
    LET due == SelectSeq(kvGetOr(queue, type, <<>>),
                 LAMBDA u : /\ kvGet(subscription, u) # None
                            /\ subscription[u].isActive
                            /\ shouldSendScheduledNotification(subscription[u],
                                                               currentHour, day))
    IN  [i \in 1..Len(due) |->
            Notification("scheduled_" \o type, due[i], type,
                         Some(subscription[due[i]].channels), now)]

SendScheduledNotifications(currentHour, day) ==
    LET items == scheduledItems(ScheduledTypes[1], currentHour, day)
                 \o scheduledItems(ScheduledTypes[2], currentHour, day)
                 \o scheduledItems(ScheduledTypes[3], currentHour, day)
    IN  /\ stored < MaxStored
        /\ StoreAndDeliver(items)
        /\ lastCall' = [op |-> "sendScheduledNotifications",
                        status |-> "processed"]
        /\ UNCHANGED <<subscription, queue, subscribes, previous, indexVars, profileVars, otherVars, clientVars,
                       iotVars, today, now>>

GetUserNotifications(userId) ==
    LET notifications == kvGetOr(userNotifications, userId, <<>>)
    IN  /\ userNotifications' =
              kvSet(userNotifications, userId,
                    markDelivered(sortNewestFirst(notifications)))
        /\ lastCall' = [op |-> "getUserNotifications", status |-> "returned"]
        /\ UNCHANGED <<subscription, queue, totalSent, stored, subscribes,
                       previous, indexVars, profileVars, otherVars, clientVars, iotVars, today, now>>

MarkAsRead(userId, notificationId) ==
    LET notifications == kvGetOr(userNotifications, userId, <<>>)
        i == findById(notifications, notificationId)
    IN  /\ IF i > 0
           THEN /\ userNotifications' =
                      kvSet(userNotifications, userId,
                            [notifications EXCEPT ![i].read = TRUE])
                /\ lastCall' = [op |-> "markAsRead", status |-> "marked_as_read"]
           ELSE /\ UNCHANGED userNotifications
                /\ lastCall' = [op |-> "markAsRead",
                                status |-> "notification_not_found"]
        /\ UNCHANGED <<subscription, queue, totalSent, stored, subscribes,
                       previous, indexVars, profileVars, otherVars, clientVars, iotVars, today, now>>

\* the ids markAsRead is called with: those of the user's list, and one
\* that no notification has
ReadableIds(userId) ==
    {kvGetOr(userNotifications, userId, <<>>)[i].id :
        i \in 1..Len(kvGetOr(userNotifications, userId, <<>>))}
      \cup {<<"unknown", 0>>}

Tick ==
    /\ now < MaxClock
    /\ now' = now + 1
    /\ UNCHANGED <<notifVars, indexVars, profileVars, otherVars, clientVars, iotVars, today, lastCall>>


-----------------------------------------------------------------------------
(* Operations of the IoT service.  processSensorData runs as a request    *)
(* that gives way at each await: after the raw key is set, after the      *)
(* latest key is set, and between the get and the set of the aggregate.   *)

IngestReadings ==
    { [farmId |-> f, sensorId |-> "sensor_" \o t \o "_001",
       sensorType |-> t, timestamp |-> ts,
       readings |-> [value |-> v, batteryLevel |-> b]] :
        f \in {"f1"}, t \in {"soil_moisture", "soil_ph"},
        ts \in {<<1, 0>>, <<1, 1>>}, v \in {100, 500}, b \in {None} }

BeginIngest(p, sensorData) ==
    LET data == normalizeSensorData(sensorData)
    IN  /\ procs[p].pc = "idle"
        /\ ingests < MaxIngests
        /\ rawData' = kvSet(rawData, dataKey(data), data)
        /\ procs' = [procs EXCEPT ![p] = [pc |-> "setLatest", data |-> Some(data),
                                          key |-> None, aggregate |-> None]]
        /\ ingests' = ingests + 1
        /\ UNCHANGED <<notifVars, indexVars, profileVars, otherVars, clientVars, latest, daily, ingested, today,
                       now, lastCall>>

\* an ingest that starts when no other is in flight
BeginIngestAlone(p, sensorData) ==
    /\ \A q \in Procs : procs[q].pc = "idle"
    /\ BeginIngest(p, sensorData)

SetLatest(p) ==
    LET data == Get(procs[p].data)
    IN  /\ procs[p].pc = "setLatest"
        /\ latest' = kvSet(latest, latestKey(data.farmId, data.sensorType), data)
        /\ procs' = [procs EXCEPT ![p].pc = "getAggregate"]
        /\ UNCHANGED <<notifVars, indexVars, profileVars, otherVars, clientVars, rawData, daily, ingested, ingests,
                       today, now, lastCall>>

\* updateDailyAggregates up to its kv.get: the key is made from the day of
\* the wall clock
GetAggregate(p) ==
    LET data == Get(procs[p].data)
        key == aggregateKey(data.farmId, data.sensorType, today)
    IN  /\ procs[p].pc = "getAggregate"
        /\ procs' = [procs EXCEPT
                       ![p].pc = "setAggregate",
                       ![p].key = Some(key),
                       ![p].aggregate =
                           Some(kvGetOr(daily, key,
                                        newAggregate(today, data.farmId,
                                                     data.sensorType, data)))]
        /\ ingested' = kvSet(ingested, key,
                             Append(kvGetOr(ingested, key, <<>>),
                                    [timestamp |-> data.timestamp,
                                     value |-> data.value]))
        /\ UNCHANGED <<notifVars, indexVars, profileVars, otherVars, clientVars, rawData, latest, daily, ingests,
                       today, now, lastCall>>

\* updateDailyAggregates from its kv.set on, and the return of
\* processSensorData
SetAggregate(p) ==
    LET data == Get(procs[p].data)
    IN  /\ procs[p].pc = "setAggregate"
        /\ daily' = kvSet(daily, Get(procs[p].key),
                          accumulate(Get(procs[p].aggregate), data))
        /\ procs' = [procs EXCEPT ![p] = IdleProc]
        /\ lastCall' = [op |-> "processSensorData", data |-> data,
                        alerts |-> analyzeForAlerts(data.farmId,
                                                    data.sensorType, data)]
        /\ UNCHANGED <<notifVars, indexVars, profileVars, otherVars, clientVars, rawData, latest, ingested, ingests,
                       today, now>>

NextDay ==
    /\ today < MaxDay
    /\ today' = today + 1
    /\ UNCHANGED <<notifVars, indexVars, profileVars, otherVars, clientVars, iotVars, now, lastCall>>

-----------------------------------------------------------------------------
(* The sensor-data handler of the API layer: processSensorData, then      *)
(* sendAlerts of notification-service.ts, which the API layer imports.    *)

\* sendAlerts of notification-service.ts: processAlert builds a
\* notification object for each alert and returns it; nothing is stored
sendAlertsReduced(alerts) ==
    [totalAlerts |-> Len(alerts), processed |-> Len(alerts)]

PostSensorData(sensorData) ==
    LET data == normalizeSensorData(sensorData)
        key == aggregateKey(data.farmId, data.sensorType, today)
        alerts == analyzeForAlerts(data.farmId, data.sensorType, data)
    IN  /\ ingests < MaxHandlerIngests
        /\ \A q \in Procs : procs[q].pc = "idle"
        /\ rawData' = kvSet(rawData, dataKey(data), data)
        /\ latest' = kvSet(latest, latestKey(data.farmId, data.sensorType), data)
        /\ daily' = kvSet(daily, key,
                          accumulate(kvGetOr(daily, key,
                                             newAggregate(today, data.farmId,
                                                          data.sensorType, data)),
                                     data))
        /\ ingested' = kvSet(ingested, key,
                             Append(kvGetOr(ingested, key, <<>>),
                                    [timestamp |-> data.timestamp,
                                     value |-> data.value]))
        /\ ingests' = ingests + 1
        /\ lastCall' = [op |-> "postSensorData",
                        status |-> IF Len(alerts) > 0
                                   THEN "success, alerts handed on"
                                   ELSE "success"]
        /\ UNCHANGED <<notifVars, indexVars, profileVars, otherVars, clientVars, procs, today, now>>

-----------------------------------------------------------------------------
(* Specifications *)

\* every operation of the notification service and the sensor-data handler,
\* each call whole
Next ==
    \/ \E sub \in SubscribeInputs : Subscribe(sub)
    \/ \E u \in Users : SendCropRecommendations(u)
    \/ \E f \in Farms : SendWeatherAlert(f)
    \/ \E c \in Crops, cp \in ChangePercents : SendPriceAlert(c, cp)
    \/ \E f \in Farms : SendSensorAlert(f)
    \/ \E a \in AlertInputs : SendAlerts(<<a>>)
    \/ \E h \in ScheduleHours, d \in ScheduleDays :
          SendScheduledNotifications(h, d)
    \/ \E u \in Users : GetUserNotifications(u)
    \/ \E u \in Users : \E id \in ReadableIds(u) : MarkAsRead(u, id)
    \/ \E sd \in HandlerReadings : PostSensorData(sd)
    \/ Tick

Spec == Init /\ [][Next]_vars

\* subscriptions and every sender of the notification service
NextNotify ==
    \/ \E sub \in SubscribeInputs : Subscribe(sub)
    \/ \E u \in Users : SendCropRecommendations(u)
    \/ \E f \in Farms : SendWeatherAlert(f)
    \/ \E c \in Crops, cp \in ChangePercents : SendPriceAlert(c, cp)
    \/ \E f \in Farms : SendSensorAlert(f)
    \/ \E a \in AlertInputs : SendAlerts(<<a>>)
    \/ \E h \in ScheduleHours, d \in ScheduleDays :
          SendScheduledNotifications(h, d)

SpecNotify == Init /\ [][NextNotify]_vars

\* the way of an alert from the sensor-data handler and the alert senders
\* to the lists the users read
NextRoute ==
    \/ \E sub \in SubscribeInputs : Subscribe(sub)
    \/ \E sd \in HandlerReadings : PostSensorData(sd)
    \/ \E a \in AlertInputs : SendAlerts(<<a>>)
    \/ \E f \in Farms : SendWeatherAlert(f)
    \/ \E c \in Crops, cp \in ChangePercents : SendPriceAlert(c, cp)
    \/ \E f \in Farms : SendSensorAlert(f)
    \/ \E u \in Users : GetUserNotifications(u)

SpecRoute == Init /\ [][NextRoute]_vars

\* the stored lists under reads and read marks
NextInbox ==
    \/ \E sub \in InboxSubscribeInputs : Subscribe(sub)
    \/ \E u \in Users : SendCropRecommendations(u)
    \/ \E f \in Farms : SendWeatherAlert(f)
    \/ \E u \in Users : GetUserNotifications(u)
    \/ \E u \in Users : \E id \in ReadableIds(u) : MarkAsRead(u, id)
    \/ Tick

SpecInbox == Init /\ [][NextInbox]_vars

\* the IoT service under concurrent requests
NextIngest ==
    \/ \E p \in Procs, sd \in IngestReadings : BeginIngest(p, sd)
    \/ \E p \in Procs : SetLatest(p)
    \/ \E p \in Procs : GetAggregate(p)
    \/ \E p \in Procs : SetAggregate(p)
    \/ NextDay

InitIngest == Init /\ farmUsers = EmptyStore

SpecIngest == InitIngest /\ [][NextIngest]_vars

\* the IoT service with the requests one after another
NextIngestSeq ==
    \/ \E p \in Procs, sd \in IngestReadings : BeginIngestAlone(p, sd)
    \/ \E p \in Procs : SetLatest(p)
    \/ \E p \in Procs : GetAggregate(p)
    \/ \E p \in Procs : SetAggregate(p)
    \/ NextDay

SpecIngestSeq == InitIngest /\ [][NextIngestSeq]_vars


\* one user's list filled beyond the cap
CapSubscribeInputs ==
    { [userId |-> "u1", farmId |-> "f1", notificationTypes |-> None,
       channels |-> c, preferences |-> None] :
         c \in {Some(<<"email">>)} }

CapSendCropRecommendations ==
    /\ stored < MAX_NOTIFICATIONS + Extra
    /\ DoSendCropRecommendations("u1")

NextCap ==
    \/ \E sub \in CapSubscribeInputs : Subscribe(sub)
    \/ CapSendCropRecommendations

InitCap == Init /\ farmUsers = EmptyStore

SpecCap == InitCap /\ [][NextCap]_vars

-----------------------------------------------------------------------------
(* Single calls of the functions that keep no state, on inputs drawn from *)
(* bounded sets; lastCall holds the input and the result until the caller *)
(* returns.                                                                *)

UnknownSensorType == "co2"

\* the values around each threshold of a sensor type, and 10 and 50 (in
\* tenths) for the types without a table
ProbeValues(sensorType) ==
    IF thresholds(sensorType) = None
    THEN {100, 500}
    ELSE LET t == Get(thresholds(sensorType))
         IN  {t.critical_low - 1, t.critical_low, t.critical_low + 1,
              t.warning_low - 1, t.warning_low, t.warning_low + 1,
              (t.warning_low + t.warning_high) \div 2,
              t.warning_high - 1, t.warning_high, t.warning_high + 1,
              t.critical_high - 1, t.critical_high, t.critical_high + 1,
              100, 500}

ProbeBatteries == {None, Some(0), Some(10), Some(19), Some(20), Some(85)}

ProbeReadings ==
    { [farmId |-> "f1", sensorId |-> "sensor_001",
       sensorType |-> tv[1], timestamp |-> <<1, 0>>,
       readings |-> [value |-> tv[2], batteryLevel |-> b]] :
        tv \in UNION { {<<t, v>> : v \in ProbeValues(t)} :
                         t \in SensorTypes \cup {UnknownSensorType} },
        b \in ProbeBatteries }

\* normalizeSensorData, then analyzeForAlerts, as processSensorData calls
\* them; processSensorData returns these alerts as they are
CallAnalyzeForAlerts(sensorData) ==
    /\ lastCall.op = "none"
    /\ lastCall' = [op |-> "analyzeForAlerts", input |-> sensorData,
                    alerts |-> ingestAlerts(sensorData)]
    /\ UNCHANGED <<notifVars, indexVars, profileVars, otherVars, clientVars, iotVars, today, now>>

ProbeFrequencies == {"immediate", "daily", "weekly", "never"}
ProbeDays == {0, 1}

CallShouldSendScheduledNotification(quietStart, quietEnd, frequency, currentHour, day) ==
    LET sub == subscriptionData(
                  [userId |-> "u1", farmId |-> "f1",
                   notificationTypes |-> None, channels |-> None,
                   preferences |->
                      Some([frequency |-> Some(frequency),
                            quietHours |-> Some([start |-> <<quietStart, 0>>,
                                                 end |-> <<quietEnd, 0>>])])])
    IN  /\ lastCall.op = "none"
        /\ lastCall' = [op |-> "shouldSendScheduledNotification",
                        quietStart |-> quietStart, quietEnd |-> quietEnd,
                        frequency |-> frequency,
                        currentHour |-> currentHour, day |-> day,
                        result |-> shouldSendScheduledNotification(
                                      sub, currentHour, day)]
        /\ UNCHANGED <<notifVars, indexVars, profileVars, otherVars, clientVars, iotVars, today, now>>

\* the channel lists of up to MaxChannels channels
ChannelLists == UNION { [1..n -> Channels] : n \in 0..MaxChannels }

CallDeliverToChannels(channels, raising) ==
    /\ lastCall.op = "none"
    /\ lastCall' = [op |-> "deliverToChannels", channels |-> channels,
                    raising |-> raising,
                    outcome |-> deliverToChannels(
                                   Notification("probe", "u1", "probe",
                                                channels, now),
                                   raising)]
    /\ UNCHANGED <<notifVars, indexVars, profileVars, otherVars, clientVars, iotVars, today, now>>

\* the caller is done with the result
Return ==
    /\ lastCall.op # "none"
    /\ lastCall' = [op |-> "none"]
    /\ UNCHANGED <<notifVars, indexVars, profileVars, otherVars, clientVars, iotVars, today, now>>

Calls ==
    \/ \E sd \in ProbeReadings : CallAnalyzeForAlerts(sd)
    \/ \E qs \in Hours, qe \in Hours, f \in ProbeFrequencies,
          h \in Hours, d \in ProbeDays :
          CallShouldSendScheduledNotification(qs, qe, f, h, d)
    \/ \E c \in {None} \cup {Some(l) : l \in ChannelLists},
          r \in SUBSET Channels :
          CallDeliverToChannels(c, r)

NextCalls ==
    \/ lastCall.op = "none" /\ Calls
    \/ Return

SpecCalls == InitCap /\ [][NextCalls]_vars


-----------------------------------------------------------------------------
(* Claims *)

ListOf(userId) == kvGetOr(userNotifications, userId, <<>>)
ListAfter(userId) == kvGetOr(userNotifications', userId, <<>>)

\* C1: after any sequence of stores for one user the stored list holds at
\* most 100 notifications, newest first: it is the last min(n, 100) of the n
\* notifications stored, in reverse order of storage; after 105 stores it
\* holds the 100 stored last and the 5 stored first are gone.
C1_CappedNewestFirst ==
    LET list == ListOf("u1")
    IN  /\ Len(list) <= MAX_NOTIFICATIONS
        /\ Len(list) = Min(stored, MAX_NOTIFICATIONS)
        /\ \A i \in 1..Len(list) : list[i].serial = stored - i + 1
        /\ stored = MAX_NOTIFICATIONS + Extra =>
              {list[i].serial : i \in 1..Len(list)}
                 = (Extra + 1)..(MAX_NOTIFICATIONS + Extra)

C1_Witness ==
    /\ stored = MAX_NOTIFICATIONS + Extra
    /\ Len(ListOf("u1")) = MAX_NOTIFICATIONS

ValueAlertsOf(alerts) == SelectSeq(alerts, LAMBDA a : a.type # "maintenance")
MaintenanceAlertsOf(alerts) == SelectSeq(alerts, LAMBDA a : a.type = "maintenance")

\* C2: for a reading of one of the six sensor types the returned alerts hold
\* at most one value-threshold alert, the first match among critical_low,
\* warning_low, critical_high, warning_high, with the action of the sensor
\* type's table; a soil moisture of 10 gives one critical alert with action
\* 'Immediate irrigation required', a soil moisture of 50 gives none.
C2_FirstMatchingTier ==
    (lastCall.op = "analyzeForAlerts"
        /\ lastCall.input.sensorType \in SensorTypes) =>
    LET type == lastCall.input.sensorType
        v == lastCall.input.readings.value
        t == Get(thresholds(type))
        act == Get(actions(type))
        found == ValueAlertsOf(lastCall.alerts)
    IN  /\ Len(found) <= 1
        /\ v <= t.critical_low =>
              found = <<[type |-> "critical", severity |-> "high",
                         message |-> "critically low",
                         action |-> act.critical_low]>>
        /\ (v > t.critical_low /\ v <= t.warning_low) =>
              found = <<[type |-> "warning", severity |-> "medium",
                         message |-> "below optimal",
                         action |-> act.warning_low]>>
        /\ (v > t.warning_low /\ v >= t.critical_high) =>
              found = <<[type |-> "critical", severity |-> "high",
                         message |-> "critically high",
                         action |-> act.critical_high]>>
        /\ (v > t.warning_low /\ v < t.critical_high /\ v >= t.warning_high) =>
              found = <<[type |-> "warning", severity |-> "medium",
                         message |-> "above optimal",
                         action |-> act.warning_high]>>
        /\ (v > t.warning_low /\ v < t.warning_high) => found = <<>>
        /\ (type = "soil_moisture" /\ v = 100) =>
              found = <<[type |-> "critical", severity |-> "high",
                         message |-> "critically low",
                         action |-> "Immediate irrigation required"]>>
        /\ (type = "soil_moisture" /\ v = 500) => found = <<>>

C2_Witness ==
    /\ lastCall.op = "analyzeForAlerts"
    /\ lastCall.input.sensorType = "soil_moisture"
    /\ lastCall.input.readings.value = 100
    /\ Len(ValueAlertsOf(lastCall.alerts)) = 1

\* C5: with a frequency that allows every day, a scheduled notification is
\* suppressed exactly when the current hour lies in [quietStart, quietEnd),
\* the window wrapping past midnight when quietStart > quietEnd.
C5_QuietWindow ==
    (lastCall.op = "shouldSendScheduledNotification"
        /\ lastCall.frequency = "immediate") =>
    LET h == lastCall.currentHour
        inWindow == IF lastCall.quietStart <= lastCall.quietEnd
                    THEN lastCall.quietStart <= h /\ h < lastCall.quietEnd
                    ELSE h >= lastCall.quietStart \/ h < lastCall.quietEnd
    IN  lastCall.result = ~inWindow

\* C8: for a notification with a list of channels, deliverToChannels raises
\* nothing and returns one outcome for each listed channel: 'failed' for a
\* channel whose send raised, 'sent' for every other one.
C8_ChannelsIndependent ==
    (lastCall.op = "deliverToChannels" /\ lastCall.channels # None) =>
    LET listed == Range(Get(lastCall.channels))
        outcome == lastCall.outcome
    IN  /\ ~outcome.threw
        /\ DOMAIN outcome.results = listed
        /\ \A c \in listed :
              outcome.results[c] = IF c \in lastCall.raising
                                   THEN "failed" ELSE "sent"

C8_Witness ==
    /\ lastCall.op = "deliverToChannels"
    /\ lastCall.channels = Some(<<"push", "email", "sms">>)
    /\ lastCall.raising = {"push"}
    /\ lastCall.outcome.results["push"] = "failed"
    /\ lastCall.outcome.results["sms"] = "sent"

\* C9: the returned alerts hold exactly one maintenance alert when the
\* reading's batteryLevel is below 20, 0 included, whatever the sensor type,
\* and none when it is 20 or more or absent.
C9_BatteryAlert ==
    lastCall.op = "analyzeForAlerts" =>
    LET battery == lastCall.input.readings.batteryLevel
        found == MaintenanceAlertsOf(lastCall.alerts)
    IN  IF battery # None /\ Get(battery) < LOW_BATTERY
        THEN Len(found) = 1
        ELSE Len(found) = 0

AllIdle == \A p \in Procs : procs[p].pc = "idle"

RECURSIVE SumValues(_)
SumValues(samples) ==
    IF samples = <<>> THEN 0
    ELSE samples[1].value + SumValues(Tail(samples))

ValuesOf(samples) == {samples[i].value : i \in 1..Len(samples)}

\* C3: when ingests for one (farm, sensorType, date) interleave at the get
\* and the set of updateDailyAggregates, the aggregate stored once all of
\* them have completed accounts for every reading: its count is the number
\* of ingests, its sum their sum, and its samples hold each of them.
C3_ConcurrentAggregate ==
    AllIdle =>
    \A key \in DOMAIN ingested :
        /\ key \in DOMAIN daily
        /\ daily[key].count = Len(ingested[key])
        /\ daily[key].sum = SumValues(ingested[key])
        /\ Range(ingested[key]) \subseteq Range(daily[key].values)

\* C10: after ingests executed one after another for one (farm, sensorType)
\* on one day the stored aggregate has count the number of ingests, sum the
\* sum of their values, min and max the smallest and largest value, average
\* sum / count (so min <= average <= max), and one (timestamp, value) sample
\* per ingest in ingest order.
C10_SequentialAggregate ==
    AllIdle =>
    /\ DOMAIN daily = DOMAIN ingested
    /\ \A key \in DOMAIN daily :
        LET a == daily[key]
            h == ingested[key]
        IN  /\ a.date = key[3] /\ a.farmId = key[1] /\ a.sensorType = key[2]
            /\ a.count = Len(h)
            /\ a.sum = SumValues(h)
            /\ a.min \in ValuesOf(h) /\ \A v \in ValuesOf(h) : a.min <= v
            /\ a.max \in ValuesOf(h) /\ \A v \in ValuesOf(h) : a.max >= v
            /\ a.average = Some(<<a.sum, a.count>>)
            /\ a.min * a.count <= a.sum /\ a.sum <= a.max * a.count
            /\ a.values = h

C10_Witness ==
    /\ AllIdle
    /\ \E key \in DOMAIN daily :
          /\ daily[key].count = MaxIngests
          /\ daily[key].min < daily[key].max
          /\ daily[key].values[1].value > daily[key].values[2].value

SerialsOf(list) == {list[i].serial : i \in 1..Len(list)}

\* one step seen from the list of one user; a notification is followed from
\* the list before to the list after by its serial
FlagsStep(userId) ==
    LET before == ListOf(userId)
        after == ListAfter(userId)
    IN  /\ \A i \in 1..Len(before) : \A j \in 1..Len(after) :
              after[j].serial = before[i].serial =>
                 /\ before[i].status = "delivered" => after[j].status = "delivered"
                 /\ before[i].read => after[j].read
                 /\ before[i].status # after[j].status =>
                       GetUserNotifications(userId)
                 /\ before[i].read # after[j].read =>
                       MarkAsRead(userId, before[i].id)
        /\ \A j \in 1..Len(after) :
              after[j].serial \notin SerialsOf(before) =>
                 after[j].status = "pending" /\ ~after[j].read
        /\ GetUserNotifications(userId) =>
              /\ SerialsOf(after) = SerialsOf(before)
              /\ \A j \in 1..Len(after) : after[j].status = "delivered"
        /\ \A id \in ReadableIds(userId) :
              MarkAsRead(userId, id) =>
                 /\ Len(after) = Len(before)
                 /\ Cardinality({i \in 1..Len(before) : after[i] # before[i]}) <= 1
                 /\ \A other \in Users \ {userId} :
                       ListAfter(other) = ListOf(other)
                 /\ findById(before, id) = 0 =>
                       /\ lastCall'.status = "notification_not_found"
                       /\ UNCHANGED userNotifications

\* C4: a notification's status goes from pending to delivered at the first
\* getUserNotifications of its user, which leaves no pending notification in
\* the list, and never goes back; its read flag goes from false to true only
\* by markAsRead with its id.  getUserNotifications changes no read flag;
\* markAsRead changes no status and no other notification, and for an
\* unknown id answers notification_not_found and writes nothing.
C4_IndependentFlags == [][\A u \in Users : FlagsStep(u)]_vars

C4_Witness ==
    \E u \in Users :
        \E i, j \in 1..Len(ListOf(u)) :
            /\ ListOf(u)[i].status = "delivered" /\ ListOf(u)[i].read
            /\ ListOf(u)[j].status = "pending" /\ ~ListOf(u)[j].read

\* the notifications a step has added to the list of a user
NewFor(userId) ==
    LET after == ListAfter(userId)
    IN  {after[j] : j \in {k \in 1..Len(after) : after[k].serial > stored}}

\* the user has subscribed again with another channel set
Resubscribed(userId) ==
    /\ userId \in DOMAIN previous
    /\ previous[userId] # subscription[userId].channels

\* C6: when subscribe is called twice for one user with different channel
\* sets, the stored subscription holds exactly the channels of the second
\* call, and every notification delivered to the user afterwards, by any
\* delivery operation, is sent on that channel set.
C6_LaterChannelsTakeEffect ==
    [][/\ \A sub \in SubscribeInputs :
             Subscribe(sub) =>
                subscription'[sub.userId].channels
                   = OrDefault(sub.channels, <<"push">>)
       /\ \A u \in Users :
             Resubscribed(u) =>
                \A n \in NewFor(u) :
                   n.channels = Some(subscription[u].channels)]_vars

\* a step has put a new pending, unread notification at the front of the
\* user's list
StoredAtFront(userId) ==
    LET after == ListAfter(userId)
    IN  /\ after # <<>>
        /\ Head(after).serial > stored
        /\ Head(after).status = "pending"
        /\ ~Head(after).read

SubscribedTo(userId, farmId, types) ==
    /\ userId \in DOMAIN subscription
    /\ subscription[userId].isActive
    /\ subscription[userId].farmId = farmId
    /\ \A t \in types : Contains(subscription[userId].notificationTypes, t)

\* C7: once a user has subscribed with a farmId and the alert's type, every
\* alert handed to the notification service for that farm or crop (the
\* alerts of an ingest the sensor-data handler passes to sendAlerts, and
\* those of sendWeatherAlert, sendPriceAlert and sendSensorAlert) is stored
\* as a pending, unread notification at the front of the user's list.
C7_AlertsReachSubscribers ==
    [][\A u \in Users :
          /\ \A sd \in HandlerReadings :
                (/\ PostSensorData(sd)
                 /\ ingestAlerts(sd) # <<>>
                 /\ SubscribedTo(u, sd.farmId, {"sensor_alerts", "system_alerts"}))
                   => StoredAtFront(u)
          /\ \A f \in Farms :
                (SendWeatherAlert(f) /\ SubscribedTo(u, f, {"weather_warnings"}))
                   => StoredAtFront(u)
          /\ \A f \in Farms :
                (SendSensorAlert(f) /\ SubscribedTo(u, f, {"sensor_alerts"}))
                   => StoredAtFront(u)
          /\ \A c \in Crops, cp \in ChangePercents :
                (/\ SendPriceAlert(c, cp)
                 /\ (cp >= PRICE_CHANGE_THRESHOLD \/ -cp >= PRICE_CHANGE_THRESHOLD)
                 /\ \E f \in Farms : SubscribedTo(u, f, {"price_alerts"}))
                   => StoredAtFront(u)]_vars

\* the raw readings stored for the farm, sensor type and date of an
\* aggregate key; the date of a reading is the day of its timestamp
RawFor(key) ==
    {k \in DOMAIN rawData :
        /\ rawData[k].farmId = key[1]
        /\ rawData[k].sensorType = key[2]
        /\ rawData[k].timestamp[1] = key[3]}

RECURSIVE SumRaw(_)
SumRaw(keys) ==
    IF keys = {} THEN 0
    ELSE LET k == CHOOSE x \in keys : TRUE
         IN  rawData[k].value + SumRaw(keys \ {k})

\* C11: every stored daily aggregate can be recomputed from the raw readings
\* stored for its farm, sensor type and date: its count, sum, min and max
\* are those of the raw readings.
C11_AggregateFromRaw ==
    AllIdle =>
    \A key \in DOMAIN daily :
        LET raw == RawFor(key)
        IN  /\ daily[key].count = Cardinality(raw)
            /\ daily[key].sum = SumRaw(raw)
            /\ \E k \in raw : rawData[k].value = daily[key].min
            /\ \E k \in raw : rawData[k].value = daily[key].max
            /\ \A k \in raw : /\ daily[key].min <= rawData[k].value
                              /\ rawData[k].value <= daily[key].max

-----------------------------------------------------------------------------
(* Farm health score: iot-service.ts.  Here the values are in hundredths  *)
(* of the unit, so that the middle of every optimal range is a whole      *)
(* number; a deduction is a whole number of 1 / ScoreScale points.        *)

\* the least common multiple of the widths of the optimal ranges
ScoreScale == 3000000

optimalRanges(sensorType) ==
    CASE sensorType = "soil_moisture" -> Some(<<4000, 6000>>)
      [] sensorType = "soil_temperature" -> Some(<<2000, 3000>>)
      [] sensorType = "soil_ph" -> Some(<<600, 750>>)
      [] sensorType = "air_temperature" -> Some(<<2000, 3500>>)
      [] sensorType = "humidity" -> Some(<<5000, 7000>>)
      [] sensorType = "light_intensity" -> Some(<<3000000, 6000000>>)
      [] OTHER -> None

Abs(x) == IF x < 0 THEN -x ELSE x

\* deduction without the cap of 20 points
deductionUncapped(sensorType, value) ==
    IF optimalRanges(sensorType) = None
    THEN 0
    ELSE LET range == Get(optimalRanges(sensorType))
         IN  IF value < range[1] \/ value > range[2]
             THEN 10 * Abs(2 * value - (range[1] + range[2]))
                     * (ScoreScale \div (range[2] - range[1]))
             ELSE 0

\* what one valid reading takes from the score, in 1 / ScoreScale points:
\* Math.min(20, deviation * 10) outside the range, nothing inside;
\* deviation = |value - middle| / half width
deduction(sensorType, value) ==
    IF optimalRanges(sensorType) = None
    THEN 0
    ELSE LET range == Get(optimalRanges(sensorType))
         IN  IF value < range[1] \/ value > range[2]
             THEN Min(20 * ScoreScale,
                      10 * Abs(2 * value - (range[1] + range[2]))
                         * (ScoreScale \div (range[2] - range[1])))
             ELSE 0

\* the sensor types the loop does not skip: !data || !data.value
validSensors(sensorData) ==
    {t \in DOMAIN sensorData : sensorData[t] # None /\ Get(sensorData[t]) # 0}

RECURSIVE deductions(_, _)
deductions(sensorData, types) ==
    IF types = {} THEN 0
    ELSE LET t == CHOOSE x \in types : TRUE
         IN  deduction(t, Get(sensorData[t]))
               + deductions(sensorData, types \ {t})

\* Math.round of score / ScoreScale
roundScore(score) == (2 * score + ScoreScale) \div (2 * ScoreScale)

\* sensorData gives each sensor type the value of its latest reading, None
\* when there is no reading or the reading has no value
calculateFarmHealthScore(sensorData) ==
    LET valid == validSensors(sensorData)
        score == 100 * ScoreScale - deductions(sensorData, valid)
    IN  IF valid # {} THEN Max(0, roundScore(score)) ELSE 0

\* for each sensor type: no reading, a value of 0, the middle of the range,
\* a value a little below the range, a value far above it
HealthProbes(sensorType) ==
    LET range == Get(optimalRanges(sensorType))
        width == range[2] - range[1]
    IN  <<None, Some(0), Some((range[1] + range[2]) \div 2),
          Some(range[1] - width \div 6), Some(range[2] + 2 * width)>>

HealthChoices == 1..5

HealthInputs ==
    { [t \in SensorTypes |-> HealthProbes(t)[pick[t]]] :
         pick \in [SensorTypes -> HealthChoices] }

CallCalculateFarmHealthScore(sensorData) ==
    /\ lastCall' = [op |-> "calculateFarmHealthScore", sensorData |-> sensorData,
                    result |-> calculateFarmHealthScore(sensorData)]
    /\ UNCHANGED <<notifVars, indexVars, profileVars, otherVars, clientVars, iotVars, today, now>>

-----------------------------------------------------------------------------
(* Market service: analyzePriceTrends.  Two files define it: the market   *)
(* service the server imports (market-service.ts) and a fuller one.       *)
(* Prices are whole numbers; every comparison of a quotient with a bound  *)
(* is made on the cross products, which is exact for positive prices.     *)

MaxSeries == 3

RECURSIVE SumSeq(_)
SumSeq(s) == IF s = <<>> THEN 0 ELSE Head(s) + SumSeq(Tail(s))

\* volatility > 15, volatility = sqrt(variance) / mean * 100 and
\* variance = sum of (price - mean)^2 / n:
\* with n * (price - mean) = n * price - sum, the test is
\* 10000 * sum of (n * price - sum)^2 > 225 * n * sum^2
volatilityAbove15(prices) ==
    LET n == Len(prices)
        total == SumSeq(prices)
        squares == SumSeq([i \in 1..n |->
                             (n * prices[i] - total) * (n * prices[i] - total)])
    IN  400 * squares > 9 * n * total * total

\* analyzePriceTrends with the bounds of 5 percent taken for a trend
analyzePriceTrendsInclusive(prices) ==
    IF Len(prices) < 2
    THEN "insufficient_data"
    ELSE LET currentPrice == prices[Len(prices)]
             previousPrice == prices[1]
         IN  IF (currentPrice - previousPrice) * 100 >= 5 * previousPrice
             THEN "bullish"
             ELSE IF (currentPrice - previousPrice) * 100 <= -5 * previousPrice
             THEN "bearish"
             ELSE IF volatilityAbove15(prices)
             THEN "volatile"
             ELSE "stable"

\* the trend analyzePriceTrends of the fuller market service returns:
\* priceChange = (currentPrice - previousPrice) / previousPrice * 100
analyzePriceTrends(prices) ==
    IF Len(prices) < 2
    THEN "insufficient_data"
    ELSE LET currentPrice == prices[Len(prices)]
             previousPrice == prices[1]
         IN  IF (currentPrice - previousPrice) * 100 > 5 * previousPrice
             THEN "bullish"
             ELSE IF (currentPrice - previousPrice) * 100 < -5 * previousPrice
             THEN "bearish"
             ELSE IF volatilityAbove15(prices)
             THEN "volatile"
             ELSE "stable"

\* the trend analyzePriceTrends of market-service.ts returns
analyzePriceTrendsReduced(prices) ==
    IF Len(prices) < 2
    THEN "insufficient_data"
    ELSE LET currentPrice == prices[Len(prices)]
             previousPrice == prices[1]
         IN  IF (currentPrice - previousPrice) * 100 > 5 * previousPrice
             THEN "bullish"
             ELSE IF (currentPrice - previousPrice) * 100 < -5 * previousPrice
             THEN "bearish"
             ELSE "stable"

ProbePrices == {20, 94, 95, 100, 105, 106, 200}

PriceSeries == UNION { [1..n -> ProbePrices] : n \in 0..MaxSeries }

CallAnalyzePriceTrends(prices) ==
    /\ lastCall' = [op |-> "analyzePriceTrends", prices |-> prices,
                    trend |-> analyzePriceTrends(prices)]
    /\ UNCHANGED <<notifVars, indexVars, profileVars, otherVars, clientVars, iotVars, today, now>>

CallAnalyzePriceTrendsReduced(prices) ==
    /\ lastCall' = [op |-> "analyzePriceTrendsReduced", prices |-> prices,
                    trend |-> analyzePriceTrendsReduced(prices)]
    /\ UNCHANGED <<notifVars, indexVars, profileVars, otherVars, clientVars, iotVars, today, now>>

-----------------------------------------------------------------------------
(* Market service: demand and supply *)

MarketCrops == {"tomatoes", "cotton", "sugarcane", "wheat"}

getCurrentProduction(crop) ==
    CASE crop = "tomatoes" -> 1200000
      [] crop = "cotton" -> 350000
      [] crop = "sugarcane" -> 4000000
      [] OTHER -> 500000

getDomesticDemand(crop) ==
    CASE crop = "tomatoes" -> 1100000
      [] crop = "cotton" -> 320000
      [] crop = "sugarcane" -> 3800000
      [] OTHER -> 450000

getIndustrialDemand(crop) ==
    CASE crop = "tomatoes" -> 200000
      [] crop = "cotton" -> 280000
      [] crop = "sugarcane" -> 3600000
      [] OTHER -> 100000

getDemandData(crop) ==
    [domestic |-> getDomesticDemand(crop),
     industrial |-> getIndustrialDemand(crop),
     total |-> getDomesticDemand(crop) + getIndustrialDemand(crop)]

\* the status of calculateSupplyDemandBalance:
\* supplyRatio = production.current / demand.total against 1.1 and 0.9
calculateSupplyDemandBalance(production, demand) ==
    IF 10 * production.current > 11 * demand.total THEN "surplus"
    ELSE IF 10 * production.current < 9 * demand.total THEN "deficit"
    ELSE "balanced"

\* getDemandSupplyAnalysis of the fuller market service
getDemandSupplyAnalysis(crop) ==
    LET productionData == [current |-> getCurrentProduction(crop)]
        demandData == getDemandData(crop)
    IN  [crop |-> crop,
         production |-> productionData.current,
         domestic |-> demandData.domestic,
         industrial |-> demandData.industrial,
         status |-> calculateSupplyDemandBalance(productionData, demandData)]

\* getDemandSupplyAnalysis of market-service.ts, which the server imports
getDemandSupplyAnalysisReduced(crop) ==
    [crop |-> crop,
     production |-> getCurrentProduction(crop),
     domestic |-> getDomesticDemand(crop),
     industrial |-> getIndustrialDemand(crop),
     status |-> "balanced"]

CallGetDemandSupplyAnalysis(crop) ==
    /\ lastCall' = [op |-> "getDemandSupplyAnalysis",
                    analysis |-> getDemandSupplyAnalysis(crop)]
    /\ UNCHANGED <<notifVars, indexVars, profileVars, otherVars, clientVars, iotVars, today, now>>

\* GET /market/demand-supply/:crop
CallGetDemandSupplyAnalysisReduced(crop) ==
    /\ lastCall' = [op |-> "getDemandSupplyAnalysisReduced",
                    analysis |-> getDemandSupplyAnalysisReduced(crop)]
    /\ UNCHANGED <<notifVars, indexVars, profileVars, otherVars, clientVars, iotVars, today, now>>

\* ------------------------------------------------------------------------
\* checkSensorStatus (iot-service.ts). Here the times are whole minutes:
\* hoursAgo < 2 is a gap under 120 minutes, hoursAgo < 24 one under 1440.
\* sensorData gives each sensor type its latest reading, None when no
\* reading is stored.
\* ------------------------------------------------------------------------

\* hoursAgo <= 2 and hoursAgo <= 24 in the place of < 2 and < 24
statusOfGapInclusive(minutesAgo) ==
    IF minutesAgo <= 2 * 60 THEN "online"
    ELSE IF minutesAgo <= 24 * 60 THEN "delayed" ELSE "offline"

\* hoursAgo < 2 ? 'online' : hoursAgo < 24 ? 'delayed' : 'offline'
statusOfGap(minutesAgo) ==
    IF minutesAgo < 2 * 60 THEN "online"
    ELSE IF minutesAgo < 24 * 60 THEN "delayed" ELSE "offline"

checkSensorStatus(sensorData, clock) ==
    [type \in SensorTypes |->
        IF sensorData[type] # None
        THEN [status |-> statusOfGap(clock - Get(sensorData[type]).timestamp),
              lastSeen |-> Some(Get(sensorData[type]).timestamp),
              batteryLevel |-> Get(sensorData[type]).batteryLevel]
        ELSE [status |-> "no_data", lastSeen |-> None, batteryLevel |-> None]]

\* the wall clock of the call, in minutes
StatusClocks == {6000, 9000}

\* how long before the call a latest reading was taken: after the call
\* (a sensor whose clock is ahead), at the call, and on both sides of the
\* two bounds
GapProbes == {-60, 0, 119, 120, 121, 1439, 1440, 5000}

latestReading(type, value, timestamp, batteryLevel) ==
    [sensorType |-> type, value |-> value, timestamp |-> timestamp,
     batteryLevel |-> batteryLevel]

\* two sensor types go through every gap, the others are silent or fresh
StatusInputs(clock) ==
    { [type \in SensorTypes |->
          IF pick[type] = None THEN None
          ELSE Some(latestReading(type, 50, clock - Get(pick[type]), Some(80)))] :
        pick \in { f \in [SensorTypes -> {None} \cup {Some(gap) : gap \in GapProbes}] :
                      \A type \in SensorTypes \ {"soil_moisture", "humidity"} :
                          f[type] \in {None, Some(0)} } }

CallCheckSensorStatus(sensorData, clock) ==
    /\ lastCall' = [op |-> "checkSensorStatus", sensorData |-> sensorData,
                    clock |-> clock,
                    status |-> checkSensorStatus(sensorData, clock)]
    /\ UNCHANGED <<notifVars, indexVars, profileVars, otherVars, clientVars, iotVars, today, now>>

(* The insights of getLatestSensorData: iot-service.ts.  The values are    *)
(* in hundredths of the unit, as for the health score.                     *)

AllOptimal == "All sensor readings are within optimal ranges"

\* sensorData.type && sensorData.type.value below the bound: false without
\* a reading, and without a value
valueBelow(sensorData, type, bound) ==
    sensorData[type] # None /\ Get(sensorData[type]) < bound

valueAbove(sensorData, type, bound) ==
    sensorData[type] # None /\ Get(sensorData[type]) > bound

generateFarmInsights(sensorData) ==
    LET insights ==
          (IF valueBelow(sensorData, "soil_moisture", 3000)
           THEN <<"Soil moisture is low - consider irrigation within 24 hours">>
           ELSE <<>>)
          \o (IF valueBelow(sensorData, "soil_ph", 600) \/ valueAbove(sensorData, "soil_ph", 750)
              THEN <<"Soil pH is outside optimal range - consider soil amendment">>
              ELSE <<>>)
          \o (IF valueAbove(sensorData, "air_temperature", 3500)
              THEN <<"High air temperature detected - provide shade and increase ventilation">>
              ELSE <<>>)
          \o (IF valueAbove(sensorData, "humidity", 8000)
              THEN <<"High humidity increases disease risk - improve air circulation">>
              ELSE <<>>)
    IN  IF Len(insights) = 0 THEN <<AllOptimal>> ELSE insights

\* getLatestSensorData, given the latest reading of each sensor type: the
\* health score and the insights of the response
CallGetLatestSensorData(sensorData) ==
    /\ lastCall' = [op |-> "getLatestSensorData", sensorData |-> sensorData,
                    healthScore |-> calculateFarmHealthScore(sensorData),
                    insights |-> generateFarmInsights(sensorData)]
    /\ UNCHANGED <<notifVars, indexVars, profileVars, otherVars, clientVars, iotVars, today, now>>

\* single calls of the functions that compute a number or a class from
\* their arguments alone
ScoreCalls ==
    \/ \E sensorData \in HealthInputs : CallCalculateFarmHealthScore(sensorData)
    \/ \E prices \in PriceSeries : CallAnalyzePriceTrends(prices)
    \/ \E prices \in PriceSeries : CallAnalyzePriceTrendsReduced(prices)
    \/ \E crop \in MarketCrops : CallGetDemandSupplyAnalysis(crop)
    \/ \E crop \in MarketCrops : CallGetDemandSupplyAnalysisReduced(crop)
    \/ \E clock \in StatusClocks : \E sensorData \in StatusInputs(clock) : CallCheckSensorStatus(sensorData, clock)
    \/ \E sensorData \in HealthInputs : CallGetLatestSensorData(sensorData)

NextScores ==
    \/ lastCall.op = "none" /\ ScoreCalls
    \/ Return

SpecScores == InitCap /\ [][NextScores]_vars

\* C12: calculateFarmHealthScore returns a whole number in 0..100 for every
\* set of latest readings: 100 when all six sensor types are present at the
\* middle of their optimal ranges, 0 when no valid reading is present, and
\* with a sensor type absent the score over the remaining ones, each sensor
\* lowering the score by at most 20 points.
C12_HealthScore ==
    lastCall.op = "calculateFarmHealthScore" =>
    LET sensorData == lastCall.sensorData
        result == lastCall.result
        valid == validSensors(sensorData)
    IN  /\ result \in 0..100
        /\ (\A t \in SensorTypes :
               /\ sensorData[t] # None
               /\ 2 * Get(sensorData[t])
                     = Get(optimalRanges(t))[1] + Get(optimalRanges(t))[2])
              => result = 100
        /\ valid = {} => result = 0
        /\ valid # {} => result >= 100 - 20 * Cardinality(valid)
        /\ \A t \in valid :
              LET without == [sensorData EXCEPT ![t] = None]
              IN  validSensors(without) # {} =>
                     /\ calculateFarmHealthScore(without) >= result
                     /\ calculateFarmHealthScore(without) - result <= 20
        /\ \A t \in SensorTypes \ valid :
              \A v \in {HealthProbes(t)[1], HealthProbes(t)[2]} :
                 calculateFarmHealthScore([sensorData EXCEPT ![t] = v]) = result

C12_Witness ==
    /\ lastCall.op = "calculateFarmHealthScore"
    /\ lastCall.sensorData["soil_ph"] = None
    /\ Cardinality(validSensors(lastCall.sensorData)) = 5
    /\ lastCall.result > 0
    /\ lastCall.result < 100

IsTrendCall == lastCall.op \in {"analyzePriceTrends", "analyzePriceTrendsReduced"}

\* last / first > 1.05 and last / first < 0.95 for positive prices
RatioAbove(prices) == 100 * prices[Len(prices)] > 105 * prices[1]
RatioBelow(prices) == 100 * prices[Len(prices)] < 95 * prices[1]

\* the coefficient of variation of the series, stdev / mean * 100, is above
\* 15: variance / mean^2 = (n * sum of squares - sum^2) / sum^2 > 0.0225
VariationAbove15(prices) ==
    LET n == Len(prices)
        total == SumSeq(prices)
        squares == SumSeq([i \in 1..n |-> prices[i] * prices[i]])
    IN  400 * (n * squares - total * total) > 9 * total * total

-----------------------------------------------------------------------------
(* The scheduler over subscriptions of every frequency *)

ScheduleSubscribeInputs ==
    { [userId |-> u, farmId |-> "f1",
       notificationTypes |-> Some(<<"weather_updates", "crop_reminders">>),
       channels |-> None,
       preferences |-> Some([frequency |-> f, quietHours |-> q])] :
         u \in Users,
         f \in {None, Some("daily"), Some("weekly"), Some("never")},
         q \in {None, Some([start |-> <<23, 0>>, end |-> <<0, 0>>])} }

NextSchedule ==
    \/ \E sub \in ScheduleSubscribeInputs : Subscribe(sub)
    \/ \E h \in ScheduleHours, d \in ScheduleDays :
          SendScheduledNotifications(h, d)
    \/ \E u \in Users : GetUserNotifications(u)

SpecSchedule == InitCap /\ [][NextSchedule]_vars

\* the frequency gate as the claim has it
FrequencyGate(frequency, day) ==
    CASE frequency = "never" -> FALSE
      [] frequency = "weekly" -> day = 1
      [] OTHER -> TRUE

\* the quiet-hours gate of a subscription at an hour: what the code answers
\* for the same quiet hours when the frequency forbids nothing
QuietGate(sub, currentHour) ==
    shouldSendScheduledNotification(
       [sub EXCEPT !.preferences.frequency = "immediate"], currentHour, 0)

\* C14: outside quiet hours a scheduled notification passes on every day
\* for every frequency but 'never' and 'weekly', on Monday only for
\* 'weekly', on no day for 'never'; a notification is sent exactly when the
\* quiet-hours gate and the frequency gate both allow it, and only for
\* active subscriptions.
C14_FrequencyGate ==
    [][\A h \in ScheduleHours, d \in ScheduleDays :
          SendScheduledNotifications(h, d) =>
             \A u \in Users, t \in Range(ScheduledTypes) :
                (\E n \in NewFor(u) : n.type = t)
                   <=> /\ Contains(kvGetOr(queue, t, <<>>), u)
                       /\ u \in DOMAIN subscription
                       /\ subscription[u].isActive
                       /\ QuietGate(subscription[u], h)
                       /\ FrequencyGate(subscription[u].preferences.frequency, d)
      ]_vars

C14_Witness ==
    /\ lastCall.op = "sendScheduledNotifications"
    /\ \E u \in Users :
          /\ u \in DOMAIN subscription
          /\ subscription[u].preferences.frequency = "weekly"
          /\ ListOf(u) # <<>>
          /\ Head(ListOf(u)).serial = stored
          /\ Head(ListOf(u)).type \in Range(ScheduledTypes)
    /\ \E u \in Users :
          /\ u \in DOMAIN subscription
          /\ subscription[u].preferences.frequency = "never"
          /\ ListOf(u) = <<>>

\* C15: getDemandSupplyAnalysis reports, for every crop, the balance status
\* 'surplus' when current production / total demand is above 1.1, 'deficit'
\* when it is below 0.9, and 'balanced' otherwise.
C15_BalanceStatus ==
    lastCall.op \in {"getDemandSupplyAnalysis", "getDemandSupplyAnalysisReduced"} =>
    LET a == lastCall.analysis
        total == a.domestic + a.industrial
    IN  a.status = IF 10 * a.production > 11 * total THEN "surplus"
                   ELSE IF 10 * a.production < 9 * total THEN "deficit"
                   ELSE "balanced"

-----------------------------------------------------------------------------
(* Operations of the Dashboard component *)

\* the effect runs (on mount, and again when userProfile changes):
\* setLoading(true), setError(null), and the three requests are issued
FetchDashboardData ==
    /\ dashboard.pc \in {"mounted", "done"}
    /\ dashboard' = [dashboard EXCEPT
                       !.pc = "waiting", !.loading = TRUE, !.error = None,
                       !.settled = [b \in Branches |-> None],
                       !.outcome = [b \in Branches |-> None]]
    /\ UNCHANGED <<notifVars, indexVars, profileVars, otherVars, iotVars, today, now, lastCall>>

\* one of the requests ends, while the others may still be on their way
BranchSettles(branch, outcome) ==
    /\ dashboard.pc = "waiting"
    /\ dashboard.settled[branch] = None
    /\ dashboard' = [dashboard EXCEPT
                       !.settled[branch] = Some(caught(branch, outcome)),
                       !.outcome[branch] = Some(outcome)]
    /\ UNCHANGED <<notifVars, indexVars, profileVars, otherVars, iotVars, today, now, lastCall>>

\* await Promise.all([...]) returns, or raises into the catch block, and
\* the state is set
Join ==
    LET settled == dashboard.settled
        rejected == \E b \in Branches :
                       settled[b] # None /\ Get(settled[b]).rejected
        weatherResponse == Get(settled["weather"]).value
        cropRecommendations == Get(Get(settled["recommendations"]).value)
        sensorData == Get(settled["sensors"]).value
    IN  /\ dashboard.pc = "waiting"
        /\ rejected \/ \A b \in Branches : settled[b] # None
        /\ dashboard' =
              IF rejected
              THEN [dashboard EXCEPT
                      !.error = Some("error"),
                      !.recommendations = MockRecommendations,
                      !.weatherData = Some(MockWeather),
                      !.soilData = Some(MockSoil),
                      !.pc = "finally"]
              ELSE [dashboard EXCEPT
                      !.weatherData = weatherResponse,
                      !.recommendations = cropRecommendations.recommendations,
                      !.soilData = IF sensorData = None
                                   THEN None
                                   ELSE Some(Get(sensorData).sensors),
                      !.pc = IF sensorData = None
                             THEN "simulating" ELSE "finally"]
        /\ UNCHANGED <<notifVars, indexVars, profileVars, otherVars, iotVars, today, now, lastCall>>

\* apiClient.simulateIoTData in its own try / catch: whether it answers or
\* fails, the function goes on
SimulateSettles(ok) ==
    /\ dashboard.pc = "simulating"
    /\ dashboard' = [dashboard EXCEPT !.pc = "finally"]
    /\ UNCHANGED <<notifVars, indexVars, profileVars, otherVars, iotVars, today, now, lastCall>>

\* finally { setLoading(false) }
Finally ==
    /\ dashboard.pc = "finally"
    /\ dashboard' = [dashboard EXCEPT !.pc = "done", !.loading = FALSE]
    /\ UNCHANGED <<notifVars, indexVars, profileVars, otherVars, iotVars, today, now, lastCall>>

NextDashboard ==
    \/ FetchDashboardData
    \/ \E b \in Branches : \E o \in Outcomes(b) : BranchSettles(b, o)
    \/ Join
    \/ \E ok \in BOOLEAN : SimulateSettles(ok)
    \/ Finally

\* every fetch that begins goes on to its end: each request ends, one way
\* or the other
SpecDashboard ==
    InitCap /\ [][NextDashboard]_vars /\ WF_vars(NextDashboard)

Failed(branch) ==
    dashboard.outcome[branch] # None /\ ~Get(dashboard.outcome[branch]).ok

Succeeded(branch) ==
    dashboard.outcome[branch] # None /\ Get(dashboard.outcome[branch]).ok

\* what is displayed once the join is over, against how the requests ended
DisplayedAsSettled ==
    /\ dashboard.pc \in {"simulating", "finally", "done"} =>
          /\ dashboard.error = None
          /\ \A b \in Branches : Failed(b) \/ Succeeded(b)
          /\ Failed("weather") => dashboard.weatherData = None
          /\ Failed("recommendations") => dashboard.recommendations = <<>>
          /\ Failed("sensors") => dashboard.soilData = None
          /\ Succeeded("weather") =>
                dashboard.weatherData
                   = Some(Get(dashboard.outcome["weather"]).response)
          /\ Succeeded("recommendations") =>
                dashboard.recommendations
                   = Get(dashboard.outcome["recommendations"]).response.recommendations
          /\ Succeeded("sensors") =>
                dashboard.soilData
                   = Some(Get(dashboard.outcome["sensors"]).response.sensors)
    /\ dashboard.pc = "done" => ~dashboard.loading
    /\ dashboard.pc = "waiting" => dashboard.error = None

\* C16: the three requests of the dashboard fetch run concurrently and are
\* joined so that a failure of any of them does not fail the others: a
\* failed branch gives its fallback (null weather, empty recommendations,
\* null sensors), the results of the branches that succeeded are displayed,
\* no error is set, and loading always ends false.
C16_BranchesIndependent ==
    /\ []DisplayedAsSettled
    /\ (dashboard.pc = "waiting")
          ~> (dashboard.pc = "done" /\ ~dashboard.loading)

C16_Witness ==
    /\ dashboard.pc = "done"
    /\ Failed("weather")
    /\ Succeeded("recommendations")
    /\ Failed("sensors")
    /\ dashboard.recommendations # <<>>

\* ------------------------------------------------------------------------
\* WeatherService (components/CropDiagnosis.tsx)
\* ------------------------------------------------------------------------

MaxForecastDays == 2   \* days asked of getForecast

\* WEATHER_API_KEY in the environment: absent, empty, the demo key, a key
WeatherEnv == {None, Some(""), Some("demo_key"), Some("k-1")}

\* Deno.env.get('WEATHER_API_KEY') || 'demo_key'
apiKeyOf(env) == IF env = None \/ Get(env) = "" THEN "demo_key" ELSE Get(env)

WeatherLocations == {"Nashik", "Pune"}

\* what the provider does with one request: the call itself raises, it
\* answers with a status that is not OK, it answers OK with a body that is
\* not JSON, OK with JSON that lacks the sections read from it, OK with
\* the full payload
ProviderAnswers == {"raises", "not_ok", "not_json", "incomplete", "complete"}

\* draws of Math.random(), in tenths
RandomDraws == {0, 5, 9}

Returned(value) == [raised |-> FALSE, value |-> value]

Raised(message) == [raised |-> TRUE, message |-> message]

\* baseTemp = 25 + random * 10; the other fields are drawn the same way,
\* each within its own fixed range
getSimulatedWeather(location, random) ==
    [from |-> "simulated", location |-> location, country |-> "IN",
     temperature |-> 25 + random, description |-> "partly cloudy"]

\* tempVariation = random * 10 - 5, tempMin = round(25 + variation - 3),
\* tempMax = round(25 + variation + 7)
simulatedDay(random) ==
    [tempMin |-> 25 + (random - 5) - 3, tempMax |-> 25 + (random - 5) + 7]

\* one entry per day asked; randoms holds the draws of the loop
getSimulatedForecast(location, days, randoms) ==
    [from |-> "simulated", location |-> location, country |-> "IN",
     forecasts |-> [i \in 1..days |-> simulatedDay(randoms[i])]]

\* the value built from the provider's full payload
observedWeather(location) ==
    [from |-> "provider", location |-> location, country |-> "IN",
     temperature |-> 31, description |-> "haze"]

observedForecast(location, days) ==
    [from |-> "provider", location |-> location, country |-> "IN",
     forecasts |-> [i \in 1..days |-> [tempMin |-> 19, tempMax |-> 33]]]

\* the statements between fetch and the return of the try block: the
\* outcome is the built value, or the error one of them raised
processAnswer(answer, built) ==
    CASE answer = "raises" -> Raised("fetch failed")
      [] answer = "not_ok" -> Raised("API error: status")
      [] answer = "not_json" -> Raised("Unexpected token")
      [] answer = "incomplete" ->
            Raised("Cannot read properties of undefined")
      [] answer = "complete" -> Returned(built)

\* the catch block of getCurrentWeather with the error raised again
getCurrentWeatherRethrows(apiKey, location, answer, random) ==
    IF apiKey = "demo_key"
    THEN Returned(getSimulatedWeather(location, random))
    ELSE processAnswer(answer, observedWeather(location))

getCurrentWeather(apiKey, location, answer, random) ==
    LET tried == IF apiKey = "demo_key"
                 THEN Returned(getSimulatedWeather(location, random))
                 ELSE processAnswer(answer, observedWeather(location))
    IN  IF tried.raised
        THEN Returned(getSimulatedWeather(location, random))
        ELSE tried

getForecast(apiKey, location, days, answer, randoms) ==
    LET tried == IF apiKey = "demo_key"
                 THEN Returned(getSimulatedForecast(location, days, randoms))
                 ELSE processAnswer(answer, observedForecast(location, days))
    IN  IF tried.raised
        THEN Returned(getSimulatedForecast(location, days, randoms))
        ELSE tried

CallGetCurrentWeather(env, location, answer, random) ==
    /\ lastCall' = [op |-> "getCurrentWeather", apiKey |-> apiKeyOf(env),
                    location |-> location, answer |-> answer,
                    outcome |-> getCurrentWeather(apiKeyOf(env), location,
                                                  answer, random)]
    /\ UNCHANGED <<notifVars, indexVars, profileVars, otherVars, clientVars, iotVars, today, now>>

CallGetForecast(env, location, days, answer, randoms) ==
    /\ lastCall' = [op |-> "getForecast", apiKey |-> apiKeyOf(env),
                    location |-> location, days |-> days, answer |-> answer,
                    outcome |-> getForecast(apiKeyOf(env), location, days,
                                            answer, randoms)]
    /\ UNCHANGED <<notifVars, indexVars, profileVars, otherVars, clientVars, iotVars, today, now>>

\* ------------------------------------------------------------------------
\* calculateHeatIndex. Temperatures are whole degrees Celsius and
\* humidities whole percents; the polynomial is evaluated in millionths
\* of a degree, each coefficient held as a sign, its millionths and the
\* three following digits, which is within 0.00001 of the value the
\* floating-point expression has everywhere on HeatTemperatures \X
\* Humidities, and no value there is that near to a half, so the rounded
\* result is the one the code returns.
\* ------------------------------------------------------------------------

HEAT_INDEX_FROM == 27

Micro == 1000000

\* c1 .. c9
heatIndexCoefficients ==
    << [sign |-> -1, micro |-> 8784694, nano |-> 756],
       [sign |->  1, micro |-> 1611394, nano |-> 110],
       [sign |->  1, micro |-> 2338548, nano |-> 839],
       [sign |-> -1, micro |-> 146116,  nano |-> 50],
       [sign |-> -1, micro |-> 12308,   nano |-> 94],
       [sign |-> -1, micro |-> 16424,   nano |-> 828],
       [sign |->  1, micro |-> 2211,    nano |-> 732],
       [sign |->  1, micro |-> 725,     nano |-> 460],
       [sign |-> -1, micro |-> 3,       nano |-> 582] >>

\* 1, temp, humidity, temp * humidity, ... : what each coefficient
\* multiplies
heatIndexMonomials(temp, humidity) ==
    << 1, temp, humidity, temp * humidity, temp * temp, humidity * humidity,
       temp * temp * humidity, temp * humidity * humidity,
       temp * temp * humidity * humidity >>

\* coefficient * monomial, in millionths
heatIndexTerm(c, m) ==
    c.sign * (c.micro * m + c.nano * (m \div 1000)
                          + (c.nano * (m % 1000)) \div 1000)

RECURSIVE SumTerms(_, _, _)
SumTerms(cs, ms, i) ==
    IF i > Len(cs) THEN 0
    ELSE heatIndexTerm(cs[i], ms[i]) + SumTerms(cs, ms, i + 1)

\* Math.round of a value in millionths: the nearest integer, halves up
roundMicro(v) == (v + Micro \div 2) \div Micro

calculateHeatIndex(temp, humidity) ==
    IF temp < HEAT_INDEX_FROM THEN temp
    ELSE roundMicro(SumTerms(heatIndexCoefficients, heatIndexMonomials(temp, humidity), 1))

HeatTemperatures == 20..50

Humidities == 0..100

CallCalculateHeatIndex(temp, humidity) ==
    /\ lastCall' = [op |-> "calculateHeatIndex", temp |-> temp,
                    humidity |-> humidity,
                    heatIndex |-> calculateHeatIndex(temp, humidity)]
    /\ UNCHANGED <<notifVars, indexVars, profileVars, otherVars, clientVars, iotVars, today, now>>

\* ------------------------------------------------------------------------
\* calculateGDD. The forecast days carry whole degrees (processForecastData
\* and getSimulatedForecast round tempMin and tempMax), so every average is
\* a whole number of half degrees: the sum is held in half degrees, and
\* the floating-point sum is exact.
\* ------------------------------------------------------------------------

DEFAULT_BASE_TEMP == 10

\* Math.max(0, avgTemp - baseTemp) with the zero left out
degreeDaySigned(day, baseTemp) == (day.tempMax + day.tempMin) - 2 * baseTemp

\* Math.max(0, avgTemp - baseTemp), in half degrees
degreeDay(day, baseTemp) ==
    LET avgTemp2 == day.tempMax + day.tempMin
    IN  IF avgTemp2 - 2 * baseTemp > 0 THEN avgTemp2 - 2 * baseTemp ELSE 0

\* forecasts.reduce((gdd, day) => gdd + ..., 0) from day i on
RECURSIVE reduceGDD(_, _, _, _)
reduceGDD(forecasts, baseTemp, i, gdd) ==
    IF i > Len(forecasts) THEN gdd
    ELSE reduceGDD(forecasts, baseTemp, i + 1, gdd + degreeDay(forecasts[i], baseTemp))

\* baseTemp is None when the caller leaves it out; the result is in half
\* degrees
calculateGDD(forecasts, baseTemp) ==
    reduceGDD(forecasts, OrDefault(baseTemp, DEFAULT_BASE_TEMP), 1, 0)

\* days with an average under, at, half a degree over and well over the
\* default base, and one with an average under zero
ForecastDayProbes ==
    { [tempMin |-> 1, tempMax |-> 5], [tempMin |-> 8, tempMax |-> 12],
      [tempMin |-> 8, tempMax |-> 13], [tempMin |-> 20, tempMax |-> 30],
      [tempMin |-> -5, tempMax |-> 3] }

ForecastLists ==
    UNION { [1..n -> ForecastDayProbes] : n \in 0..MaxForecastDays }

BaseTemps == {None, Some(15)}

CallCalculateGDD(forecasts, baseTemp) ==
    /\ lastCall' = [op |-> "calculateGDD", forecasts |-> forecasts,
                    baseTemp |-> baseTemp,
                    gdd |-> calculateGDD(forecasts, baseTemp)]
    /\ UNCHANGED <<notifVars, indexVars, profileVars, otherVars, clientVars, iotVars, today, now>>

WeatherCalls ==
    \/ \E env \in WeatherEnv, location \in WeatherLocations, answer \in ProviderAnswers, random \in RandomDraws : CallGetCurrentWeather(env, location, answer, random)
    \/ \E env \in WeatherEnv, location \in WeatherLocations, days \in 0..MaxForecastDays, answer \in ProviderAnswers : \E randoms \in [1..days -> RandomDraws] : CallGetForecast(env, location, days, answer, randoms)
    \/ \E temp \in HeatTemperatures, humidity \in Humidities : CallCalculateHeatIndex(temp, humidity)
    \/ \E forecasts \in ForecastLists, baseTemp \in BaseTemps : CallCalculateGDD(forecasts, baseTemp)

NextWeather ==
    \/ lastCall.op = "none" /\ WeatherCalls
    \/ Return

SpecWeather == InitCap /\ [][NextWeather]_vars

IsWeatherCall == lastCall.op \in {"getCurrentWeather", "getForecast"}

\* the cases in which the provider gives no value to build the result from
NoProviderValue ==
    \/ lastCall.apiKey = "demo_key"
    \/ lastCall.answer \in {"raises", "not_ok", "not_json", "incomplete"}

\* C17: getCurrentWeather and getForecast never raise: with the demo key,
\* with a provider status that is not OK, with a provider call that
\* raises, and with a payload that cannot be processed, they return the
\* simulated observation or forecast for the location asked.
C17_WeatherNeverFails ==
    IsWeatherCall =>
        /\ ~lastCall.outcome.raised
        /\ NoProviderValue =>
              /\ lastCall.outcome.value.from = "simulated"
              /\ lastCall.outcome.value.location = lastCall.location
        /\ lastCall.op = "getForecast" /\ NoProviderValue =>
              Len(lastCall.outcome.value.forecasts) = lastCall.days

C17_Witness ==
    /\ lastCall.op = "getForecast"
    /\ lastCall.apiKey # "demo_key"
    /\ lastCall.answer = "incomplete"
    /\ ~lastCall.outcome.raised
    /\ lastCall.outcome.value.from = "simulated"
    /\ lastCall.days = MaxForecastDays

\* C19: for a temperature of 27 or more and a humidity in [0, 100]
\* calculateHeatIndex returns a finite number that is at least the
\* temperature; for a temperature under 27 it returns the temperature
\* itself.
C19_HeatIndexAtLeastTemperature ==
    lastCall.op = "calculateHeatIndex" =>
        /\ lastCall.temp >= 27 /\ lastCall.humidity \in 0..100 =>
              /\ lastCall.heatIndex \in Int
              /\ lastCall.heatIndex >= lastCall.temp
        /\ lastCall.temp < 27 => lastCall.heatIndex = lastCall.temp

\* the sum of max(0, (tempMax + tempMin) / 2 - baseTemp) over the first n
\* days, in half degrees
RECURSIVE DegreeDaysOver(_, _, _)
DegreeDaysOver(forecasts, baseTemp, n) ==
    IF n = 0 THEN 0
    ELSE LET over == forecasts[n].tempMax + forecasts[n].tempMin - 2 * baseTemp
         IN  DegreeDaysOver(forecasts, baseTemp, n - 1)
                + (IF over > 0 THEN over ELSE 0)

\* C20: calculateGDD is the sum over the forecast days of
\* max(0, (tempMax + tempMin) / 2 - baseTemp), baseTemp being 10 when it is
\* left out: it is never negative, it is 0 for an empty forecast, and a
\* day appended to the forecast never lowers it and raises it exactly when
\* the day's average temperature is over baseTemp.
C20_GrowingDegreeDays ==
    lastCall.op = "calculateGDD" =>
        LET forecasts == lastCall.forecasts
            baseTemp == IF lastCall.baseTemp = None THEN 10
                        ELSE Get(lastCall.baseTemp)
        IN  /\ lastCall.gdd = DegreeDaysOver(forecasts, baseTemp, Len(forecasts))
            /\ lastCall.gdd >= 0
            /\ forecasts = <<>> => lastCall.gdd = 0
            /\ \A day \in ForecastDayProbes :
                  LET longer == calculateGDD(Append(forecasts, day), lastCall.baseTemp)
                  IN  /\ longer >= lastCall.gdd
                      /\ longer > lastCall.gdd
                            <=> day.tempMax + day.tempMin > 2 * baseTemp

C20_Witness ==
    /\ lastCall.op = "calculateGDD"
    /\ lastCall.baseTemp = None
    /\ Len(lastCall.forecasts) = MaxForecastDays
    /\ \E i \in 1..Len(lastCall.forecasts) :
          lastCall.forecasts[i].tempMax + lastCall.forecasts[i].tempMin < 20
    /\ lastCall.gdd = 1

\* ------------------------------------------------------------------------
\* The API layer: the routes of the server (components/CropDiagnosis.tsx
\* 779-1090). Each handler is one try block and one catch block. A request
\* is given by its body, its farmId parameter, and by whether the service
\* behind the route and the key-value store raise on it.
\* ------------------------------------------------------------------------

\* for each route: whether the handler reads a JSON body, calls a service,
\* calls the key-value store itself, and the message of its catch block
routes ==
    [ weather_current |->
        [json |-> FALSE, service |-> TRUE, kv |-> TRUE,
         failure |-> "Failed to fetch weather data"],
      weather_forecast |->
        [json |-> FALSE, service |-> TRUE, kv |-> TRUE,
         failure |-> "Failed to fetch weather forecast"],
      weather_agri_indices |->
        [json |-> FALSE, service |-> TRUE, kv |-> FALSE,
         failure |-> "Failed to calculate agricultural indices"],
      ml_crop_recommendations |->
        [json |-> TRUE, service |-> TRUE, kv |-> TRUE,
         failure |-> "Failed to generate crop recommendations"],
      ml_crop_diagnosis |->
        [json |-> TRUE, service |-> TRUE, kv |-> FALSE,
         failure |-> "Failed to analyze crop image"],
      ml_yield_prediction |->
        [json |-> TRUE, service |-> TRUE, kv |-> FALSE,
         failure |-> "Failed to predict yield"],
      iot_sensor_data |->
        [json |-> TRUE, service |-> TRUE, kv |-> FALSE,
         failure |-> "Failed to process sensor data"],
      iot_farm_latest |->
        [json |-> FALSE, service |-> TRUE, kv |-> FALSE,
         failure |-> "Failed to retrieve sensor data"],
      iot_farm_history |->
        [json |-> FALSE, service |-> TRUE, kv |-> FALSE,
         failure |-> "Failed to retrieve sensor history"],
      market_prices |->
        [json |-> FALSE, service |-> TRUE, kv |-> TRUE,
         failure |-> "Failed to fetch market prices"],
      market_trends |->
        [json |-> FALSE, service |-> TRUE, kv |-> FALSE,
         failure |-> "Failed to analyze market trends"],
      market_demand_supply |->
        [json |-> FALSE, service |-> TRUE, kv |-> FALSE,
         failure |-> "Failed to analyze demand-supply"],
      farm_profile_post |->
        [json |-> TRUE, service |-> FALSE, kv |-> TRUE,
         failure |-> "Failed to save farm profile"],
      farm_profile_get |->
        [json |-> FALSE, service |-> FALSE, kv |-> TRUE,
         failure |-> "Failed to retrieve farm profile"],
      notifications_subscribe |->
        [json |-> TRUE, service |-> TRUE, kv |-> FALSE,
         failure |-> "Failed to subscribe to notifications"],
      notifications_get |->
        [json |-> FALSE, service |-> TRUE, kv |-> FALSE,
         failure |-> "Failed to retrieve notifications"],
      iot_simulate |->
        [json |-> FALSE, service |-> TRUE, kv |-> FALSE,
         failure |-> "Failed to simulate IoT data"],
      analytics_farm |->
        [json |-> FALSE, service |-> TRUE, kv |-> TRUE,
         failure |-> "Failed to generate analytics"] ]

Routes == DOMAIN routes

\* the routes whose service writes stores of this model when it succeeds:
\* their successful requests are the actions of those services
\* (PostSensorData, Subscribe, GetUserNotifications)
ServiceStateRoutes ==
    {"iot_sensor_data", "notifications_subscribe", "notifications_get"}

\* a request body: not JSON, JSON without a field the route requires
\* (readings for the sensor data, id for the farm profile), the full body;
\* "none" on the routes that read no body
Bodies(route) ==
    IF routes[route].json THEN {"not_json", "incomplete", "complete"}
    ELSE {"none"}

Requests(route) ==
    [body : Bodies(route), farmId : Farms, serviceRaises : BOOLEAN, kvRaises : BOOLEAN]

Response(status, body) == [status |-> status, body |-> body]

\* farmProfile.id || `farm_${Date.now()}`
profileId(req, clock) ==
    IF req.body = "complete" THEN req.farmId ELSE "farm_" \o ToString(clock)

\* the JSON of the request body, as the profile route stores it
profileOf(req) ==
    IF req.body = "complete" THEN [id |-> req.farmId, name |-> "farm"]
    ELSE [name |-> "farm"]

\* whether the service call of the route raises: as the request says, and
\* for the sensor data always when the body has no readings
\* (normalizeSensorData reads sensorData.readings.value)
serviceCallRaises(route, req) ==
    \/ req.serviceRaises
    \/ route = "iot_sensor_data" /\ req.body = "incomplete"

\* the try block of a handler: the response it returns and the profiles it
\* leaves stored, or the error raised in it
tryHandler(route, req, profiles, clock) ==
    IF routes[route].json /\ req.body = "not_json"
    THEN Raised("Unexpected token in JSON")
    ELSE IF routes[route].service /\ serviceCallRaises(route, req)
    THEN Raised("service error")
    ELSE IF routes[route].kv /\ req.kvRaises
    THEN Raised("kv error")
    ELSE IF route = "farm_profile_post"
    THEN Returned([response |-> Response(200, [status |-> "success", farmId |-> profileId(req, clock)]),
                   profiles |-> kvSet(profiles, profileId(req, clock), profileOf(req))])
    ELSE IF route = "farm_profile_get"
    THEN Returned([response |-> IF kvGet(profiles, req.farmId) = None
                                THEN Response(404, [error |-> "Farm profile not found"])
                                ELSE Response(200, Get(kvGet(profiles, req.farmId))),
                   profiles |-> profiles])
    ELSE Returned([response |-> Response(200, [result |-> route]),
                   profiles |-> profiles])

\* a handler without its catch block: the error leaves the handler, which
\* gives no response of its own (status 0)
handlerUncaught(route, req, profiles, clock) ==
    LET tried == tryHandler(route, req, profiles, clock)
    IN  IF tried.raised
        THEN [response |-> Response(0, [error |-> tried.message]),
              profiles |-> profiles]
        ELSE tried.value

\* try { ... } catch (error) { return c.json({ error: '...' }, 500) }
handler(route, req, profiles, clock) ==
    LET tried == tryHandler(route, req, profiles, clock)
    IN  IF tried.raised
        THEN [response |-> Response(500, [error |-> routes[route].failure]),
              profiles |-> profiles]
        ELSE tried.value

\* one request on one route
Request(route, req) ==
    /\ route \in ServiceStateRoutes =>
          tryHandler(route, req, farmProfile, now).raised
    /\ farmProfile' = handler(route, req, farmProfile, now).profiles
    /\ lastCall' = [op |-> "request", route |-> route, req |-> req,
                    tried |-> tryHandler(route, req, farmProfile, now),
                    response |-> handler(route, req, farmProfile, now).response]
    /\ UNCHANGED <<notifVars, indexVars, otherVars, clientVars, iotVars, today, now>>

\* GET /health: no try block, and nothing in it that raises
Health ==
    /\ lastCall' = [op |-> "health", response |-> Response(200, [status |-> "healthy"])]
    /\ UNCHANGED <<notifVars, indexVars, profileVars, otherVars, clientVars, iotVars, today, now>>

NextApi ==
    \/ lastCall.op = "none" /\ \E route \in Routes : \E req \in Requests(route) : Request(route, req)
    \/ lastCall.op = "none" /\ Health
    \/ Tick
    \/ Return

SpecApi == InitCap /\ [][NextApi]_vars

FailureResponses ==
    { Response(500, [error |-> routes[r].failure]) : r \in Routes }

\* C18: no handler of the API layer lets an exception escape: when the
\* body, the service or the key-value call behind a handler raises
\* (a sensor-data payload without readings included), the handler answers
\* with an error response that carries a message; GET /farm/profile/:farmId
\* for a farmId with no profile stored answers 'not found', which is
\* neither the failure response of any route nor a stored profile.
C18_NoExceptionEscapes ==
    lastCall.op = "request" =>
        LET route == lastCall.route
            response == lastCall.response
        IN  /\ response.status \in {200, 404, 500}
            /\ lastCall.tried.raised =>
                  /\ response.status = 500
                  /\ DOMAIN response.body = {"error"}
                  /\ response.body.error # ""
            /\ route = "iot_sensor_data" /\ lastCall.req.body = "incomplete" =>
                  response = Response(500, [error |-> "Failed to process sensor data"])
            /\ /\ route = "farm_profile_get"
               /\ ~lastCall.req.kvRaises
               /\ lastCall.req.farmId \notin DOMAIN farmProfile
               => /\ response = Response(404, [error |-> "Farm profile not found"])
                  /\ response \notin FailureResponses
                  /\ \A id \in DOMAIN farmProfile : response.body # farmProfile[id]
            /\ /\ route = "farm_profile_get"
               /\ ~lastCall.req.kvRaises
               /\ lastCall.req.farmId \in DOMAIN farmProfile
               => response = Response(200, farmProfile[lastCall.req.farmId])

C18_Witness ==
    /\ lastCall.op = "request"
    /\ lastCall.route = "farm_profile_get"
    /\ lastCall.response.status = 404
    /\ lastCall.req.farmId = "f2"
    /\ "f1" \in DOMAIN farmProfile

\* C21: checkSensorStatus reports one status for each of the six sensor
\* types, and the status follows from the gap between the time of the call
\* and the timestamp of the type's latest reading alone: 'online' under 2
\* hours, 'delayed' under 24 hours, 'offline' from 24 hours on, and
\* 'no_data' when no latest reading is stored.
C21_SensorStatus ==
    lastCall.op = "checkSensorStatus" =>
        /\ DOMAIN lastCall.status
              = {"soil_moisture", "soil_temperature", "soil_ph",
                 "air_temperature", "humidity", "light_intensity"}
        /\ \A type \in DOMAIN lastCall.status :
              LET reading == lastCall.sensorData[type]
                  status == lastCall.status[type].status
                  gap == lastCall.clock - Get(reading).timestamp
              IN  /\ status \in {"online", "delayed", "offline", "no_data"}
                  /\ status = "no_data" <=> reading = None
                  /\ reading # None =>
                        /\ status = "online" <=> gap < 120
                        /\ status = "delayed" <=> gap >= 120 /\ gap < 1440
                        /\ status = "offline" <=> gap >= 1440

C21_Witness ==
    /\ lastCall.op = "checkSensorStatus"
    /\ lastCall.status["soil_moisture"].status = "delayed"
    /\ lastCall.clock - Get(lastCall.sensorData["soil_moisture"]).timestamp = 120
    /\ lastCall.status["humidity"].status = "offline"
    /\ lastCall.status["soil_ph"].status = "no_data"
    /\ lastCall.status["light_intensity"].status = "online"

-----------------------------------------------------------------------------
(* The notification calls of one user with their awaits as steps: each of  *)
(* storeAndDeliverNotification, getUserNotifications and markAsRead reads  *)
(* the user's list with kv.get, changes its copy, and writes the copy back *)
(* with kv.set.                                                            *)

MaxInterleavedStores == 2

InterleavedUser == "u1"

\* storeAndDeliverNotification up to its kv.set: kv.get, unshift, splice
StoreGet(c, type) ==
    LET serial == Len(notifCalls.issued) + 1
        notification == [Notification("n", InterleavedUser, type, Some(<<"push">>), serial)
                           EXCEPT !.serial = serial]
        list == kvGetOr(userNotifications, InterleavedUser, <<>>)
    IN  /\ notifCalls.flight[c].pc = "idle"
        /\ Len(notifCalls.issued) < MaxInterleavedStores
        /\ notifCalls' = [notifCalls EXCEPT
                            !.flight[c] = [pc |-> "storeSet",
                                           list |-> storeNotification(list, notification)],
                            !.issued = Append(@, notification.id)]
        /\ UNCHANGED <<notifVars, indexVars, profileVars, market, panel, clientVars, iotVars, today, now, lastCall>>

\* its kv.set, then the delivery and the system statistics
StoreSet(c) ==
    /\ notifCalls.flight[c].pc = "storeSet"
    /\ userNotifications' = kvSet(userNotifications, InterleavedUser, notifCalls.flight[c].list)
    /\ stored' = stored + 1
    /\ totalSent' = totalSent + 1
    /\ notifCalls' = [notifCalls EXCEPT !.flight[c] = IdleCall]
    /\ UNCHANGED <<subscription, queue, subscribes, previous, indexVars, profileVars, market, panel, clientVars, iotVars, today, now, lastCall>>

\* getUserNotifications up to its kv.set: kv.get, sort, mark as delivered
FetchGet(c) ==
    LET list == kvGetOr(userNotifications, InterleavedUser, <<>>)
    IN  /\ notifCalls.flight[c].pc = "idle"
        /\ notifCalls' = [notifCalls EXCEPT
                            !.flight[c] = [pc |-> "fetchSet",
                                           list |-> markDelivered(sortNewestFirst(list))]]
        /\ UNCHANGED <<notifVars, indexVars, profileVars, market, panel, clientVars, iotVars, today, now, lastCall>>

FetchSet(c) ==
    /\ notifCalls.flight[c].pc = "fetchSet"
    /\ userNotifications' = kvSet(userNotifications, InterleavedUser, notifCalls.flight[c].list)
    /\ notifCalls' = [notifCalls EXCEPT !.flight[c] = IdleCall]
    /\ UNCHANGED <<subscription, queue, totalSent, stored, subscribes, previous, indexVars, profileVars, market, panel, clientVars, iotVars, today, now, lastCall>>

\* markAsRead up to its kv.set: kv.get, find, read = true; it returns at
\* once when the list holds no such notification
MarkGet(c, notificationId) ==
    LET list == kvGetOr(userNotifications, InterleavedUser, <<>>)
        i == findById(list, notificationId)
    IN  /\ notifCalls.flight[c].pc = "idle"
        /\ notificationId \notin notifCalls.marked
        /\ notifCalls' = [notifCalls EXCEPT
                            !.flight[c] =
                                IF i > 0
                                THEN [pc |-> "markSet",
                                      list |-> [list EXCEPT ![i].read = TRUE],
                                      notificationId |-> notificationId]
                                ELSE IdleCall]
        /\ UNCHANGED <<notifVars, indexVars, profileVars, market, panel, clientVars, iotVars, today, now, lastCall>>

\* its kv.set, and the answer 'marked_as_read'
MarkSet(c) ==
    /\ notifCalls.flight[c].pc = "markSet"
    /\ userNotifications' = kvSet(userNotifications, InterleavedUser, notifCalls.flight[c].list)
    /\ notifCalls' = [notifCalls EXCEPT
                        !.flight[c] = IdleCall,
                        !.marked = @ \cup {notifCalls.flight[c].notificationId}]
    /\ UNCHANGED <<subscription, queue, totalSent, stored, subscribes, previous, indexVars, profileVars, market, panel, clientVars, iotVars, today, now, lastCall>>

NextInterleave ==
    \/ \E c \in NotifCallIds, type \in {"weather_alert"} : StoreGet(c, type)
    \/ \E c \in NotifCallIds : StoreSet(c)
    \/ \E c \in NotifCallIds : FetchGet(c)
    \/ \E c \in NotifCallIds : FetchSet(c)
    \/ \E c \in NotifCallIds : \E notificationId \in ReadableIds(InterleavedUser) : MarkGet(c, notificationId)
    \/ \E c \in NotifCallIds : MarkSet(c)

SpecInterleave == InitCap /\ [][NextInterleave]_vars

NoCallInFlight == \A c \in NotifCallIds : notifCalls.flight[c].pc = "idle"

\* C22: when storeAndDeliverNotification, getUserNotifications and
\* markAsRead of one user interleave at their kv.get and kv.set, no
\* notification and no read mark is lost: once all the calls have
\* completed, the stored list holds every notification that was stored (up
\* to the cap of 100), and every notification marked read is still marked.
C22_NothingLost ==
    NoCallInFlight =>
        LET list == kvGetOr(userNotifications, InterleavedUser, <<>>)
        IN  /\ Len(notifCalls.issued) <= 100 =>
                  \A k \in 1..Len(notifCalls.issued) :
                     \E i \in 1..Len(list) : list[i].id = notifCalls.issued[k]
            /\ \A id \in notifCalls.marked :
                  \A i \in 1..Len(list) : list[i].id = id => list[i].read

\* C23: storeAndDeliverNotification is all-or-nothing: whenever it raises,
\* the user's stored list and the system statistics are as they were
\* before the call; so it is for the system alerts that go through
\* processAlert and sendNotificationToUser, whose notification has no
\* channels field.
C23_AllOrNothing ==
    [][\A a \in AlertInputs :
          (SendAlerts(<<a>>) /\ lastCall'.op = "sendAlerts" /\ lastCall'.status = "threw")
             => /\ userNotifications' = userNotifications
                /\ totalSent' = totalSent]_vars

\* subscribe calls that change the notification types of a user
ResubscribeInputs ==
    { [userId |-> u, farmId |-> "f1", notificationTypes |-> types,
       channels |-> None, preferences |-> None] :
         u \in Users,
         types \in {None, Some(<<"weather_updates">>), Some(<<"crop_reminders">>),
                    Some(<<"weather_updates", "crop_reminders">>)} }

NextResubscribe ==
    \/ \E sub \in ResubscribeInputs : Subscribe(sub)
    \/ \E h \in ScheduleHours, d \in ScheduleDays : SendScheduledNotifications(h, d)
    \/ \E u \in Users : GetUserNotifications(u)

SpecResubscribe == InitCap /\ [][NextResubscribe]_vars

NoDuplicates(s) == \A i, j \in 1..Len(s) : s[i] = s[j] => i = j

\* C24: after any sequence of subscribe calls a scheduled notification of
\* type T is delivered only to users whose stored subscription is active
\* and lists T among its notificationTypes, and each per-type queue holds
\* every userId at most once.
C24_OnlyCurrentSubscribers ==
    [][/\ \A t \in DOMAIN queue' : NoDuplicates(queue'[t])
       /\ \A h \in ScheduleHours, d \in ScheduleDays :
             SendScheduledNotifications(h, d) =>
                \A u \in Users, t \in Range(ScheduledTypes) :
                   (\E n \in NewFor(u) : n.type = t)
                      => /\ u \in DOMAIN subscription
                         /\ subscription[u].isActive
                         /\ Contains(subscription[u].notificationTypes, t)
      ]_vars

-----------------------------------------------------------------------------
(* Market prices and their cache: MarketService of src/unnamed/part_003.   *)
(* The clock is in whole minutes, a price is a whole number, the regional  *)
(* multiplier and the volatility are in hundredths.                        *)

MaxMarketClock == 45

\* the calls that generate a price, in one behaviour
MaxGenerated == 4

CACHE_MINUTES == 30

\* how far the clock moves between two calls
MarketTicks == {15}

PriceCrops == {"tomatoes"}

PriceRegions == {"all", "punjab"}

\* (Math.random() - 0.5) * 2 * maxVolatility, in hundredths
Volatilities == {0, 5}

getBasePriceForCrop(crop) ==
    CASE crop = "tomatoes" -> 45
      [] crop = "cotton" -> 6200
      [] crop = "sugarcane" -> 3200
      [] crop = "wheat" -> 2100
      [] OTHER -> 100

\* in hundredths
getRegionalMultiplier(region) ==
    CASE region = "punjab" -> 105
      [] region = "karnataka" -> 95
      [] OTHER -> 100

\* Math.round of num / den, for den > 0
roundRatio(num, den) == (2 * num + den) \div (2 * den)

\* the price data generated at the time clock; it carries the time as
\* lastUpdated, and has no field named timestamp
fetchMarketPrices(crop, region, volatility, clock) ==
    [crop |-> crop, region |-> region,
     currentPrice |-> roundRatio(getBasePriceForCrop(crop) * getRegionalMultiplier(region)
                                    * (100 + volatility), 10000),
     previousPrice |-> roundRatio(getBasePriceForCrop(crop) * getRegionalMultiplier(region), 100),
     lastUpdated |-> clock,
     source |-> "Agricultural Marketing Intelligence"]

\* record.name: undefined when the record has no such field
fieldOf(record, name) ==
    IF name \in DOMAIN record THEN Some(record[name]) ELSE None

\* new Date(timestamp).getTime() is NaN for an undefined timestamp, and
\* a comparison with NaN is false
isCacheValid(timestamp, clock) ==
    IF timestamp = None THEN FALSE
    ELSE clock - Get(timestamp) < CACHE_MINUTES

cacheKey(crop, region) == <<crop, region>>

\* getCurrentPrices: the cached data when it is there and valid, else the
\* data generated now, which is cached
GetCurrentPrices(crop, region, volatility) ==
    LET cachedData == kvGet(market.cache, cacheKey(crop, region))
        priceData == fetchMarketPrices(crop, region, volatility, market.clock)
    IN  /\ market.generated < MaxGenerated
        /\ IF cachedData # None /\ isCacheValid(fieldOf(Get(cachedData), "timestamp"), market.clock)
           THEN /\ lastCall' = [op |-> "getCurrentPrices", crop |-> crop, region |-> region,
                                result |-> Get(cachedData)]
                /\ UNCHANGED <<notifVars, indexVars, profileVars, otherVars, clientVars, iotVars, today, now>>
           ELSE /\ market' = [market EXCEPT
                                !.cache = kvSet(@, cacheKey(crop, region), priceData),
                                !.generated = @ + 1]
                /\ lastCall' = [op |-> "getCurrentPrices", crop |-> crop, region |-> region,
                                result |-> priceData]
                /\ UNCHANGED <<notifVars, indexVars, profileVars, notifCalls, panel, clientVars, iotVars, today, now>>

MarketTick(minutes) ==
    /\ market.clock + minutes <= MaxMarketClock
    /\ market' = [market EXCEPT !.clock = @ + minutes]
    /\ UNCHANGED <<notifVars, indexVars, profileVars, notifCalls, panel, clientVars, iotVars, today, now, lastCall>>

\* C25: market prices are cached for 30 minutes: a getCurrentPrices call
\* for a (crop, region) made less than 30 minutes after an earlier call
\* whose result was stored returns the stored result as it is and generates
\* no new price; a call made 30 minutes or more later generates a fresh
\* result and stores it.
C25_PriceCache ==
    [][\A crop \in PriceCrops, region \in PriceRegions, volatility \in Volatilities :
          (/\ GetCurrentPrices(crop, region, volatility)
           /\ cacheKey(crop, region) \in DOMAIN market.cache)
          => LET earlier == market.cache[cacheKey(crop, region)]
             IN  IF market.clock - earlier.lastUpdated < 30
                 THEN /\ lastCall'.result = earlier
                      /\ market'.generated = market.generated
                      /\ market'.cache = market.cache
                 ELSE /\ market'.generated = market.generated + 1
                      /\ lastCall'.result.lastUpdated = market.clock
                      /\ market'.cache[cacheKey(crop, region)] = lastCall'.result
      ]_vars

\* the day a timestamp falls on
dayOf(timestamp) == timestamp[1]

\* C26: every (timestamp, value) sample held in a daily aggregate has a
\* timestamp that falls on the date of the aggregate: a reading is
\* accumulated into the aggregate of the day of its own timestamp.
C26_SamplesOnAggregateDate ==
    \A key \in DOMAIN daily :
        /\ daily[key].date = key[3]
        /\ \A i \in 1..Len(daily[key].values) :
              dayOf(daily[key].values[i].timestamp) = daily[key].date

\* C27: in every getLatestSensorData response the insight 'All sensor
\* readings are within optimal ranges' is present only if no sensor was
\* penalised, that is only if the health score of the same response is 100.
C27_AllOptimalOnlyAtFullScore ==
    (/\ lastCall.op = "getLatestSensorData"
     /\ \E i \in 1..Len(lastCall.insights) : lastCall.insights[i] = AllOptimal)
    => /\ lastCall.healthScore = 100
       /\ \A t \in validSensors(lastCall.sensorData) :
              deduction(t, Get(lastCall.sensorData[t])) = 0

-----------------------------------------------------------------------------
(* Historical prices: getHistoricalPrices of src/unnamed/part_003.  The    *)
(* seasonal factor and the random factor are arguments, in tenths, the     *)
(* same for every sample of a series.                                      *)

getTimeframeDays(timeframe) ==
    CASE timeframe = "7days" -> 7
      [] timeframe = "30days" -> 30
      [] timeframe = "90days" -> 90
      [] timeframe = "6months" -> 180
      [] timeframe = "1year" -> 365
      [] OTHER -> 30

\* the price of the sample of i days ago:
\* basePrice * seasonalFactor * volatilityFactor * (1 + (i / days) * 0.1)
historicalPrice(basePrice, seasonalFactor, volatilityFactor, i, days) ==
    roundRatio(basePrice * seasonalFactor * volatilityFactor * (10 * days + i),
               100 * 10 * days)

\* the prices of the samples in the order they are pushed: i runs from
\* days down to 0, so the sample of days ago comes first
getHistoricalPrices(crop, timeframe, seasonalFactor, volatilityFactor) ==
    LET days == getTimeframeDays(timeframe)
    IN  [k \in 1..(days + 1) |->
            historicalPrice(getBasePriceForCrop(crop), seasonalFactor,
                            volatilityFactor, days + 1 - k, days)]

HistoryCrops == {"tomatoes", "cotton", "millet"}

Timeframes == {"7days", "fortnight"}

SeasonalFactors == {10, 12}

VolatilityFactors == {10, 11}

CallGetHistoricalPrices(crop, timeframe, seasonalFactor, volatilityFactor) ==
    /\ lastCall' = [op |-> "getHistoricalPrices", crop |-> crop,
                    days |-> getTimeframeDays(timeframe),
                    seasonalFactor |-> seasonalFactor,
                    volatilityFactor |-> volatilityFactor,
                    prices |-> getHistoricalPrices(crop, timeframe, seasonalFactor,
                                                   volatilityFactor)]
    /\ UNCHANGED <<notifVars, indexVars, profileVars, otherVars, clientVars, iotVars, today, now>>

NextMarket ==
    \/ \E crop \in PriceCrops, region \in PriceRegions, volatility \in Volatilities : GetCurrentPrices(crop, region, volatility)
    \/ \E minutes \in MarketTicks : MarketTick(minutes)
    \/ \E crop \in HistoryCrops, timeframe \in Timeframes, seasonalFactor \in SeasonalFactors, volatilityFactor \in VolatilityFactors : CallGetHistoricalPrices(crop, timeframe, seasonalFactor, volatilityFactor)

SpecMarket == InitCap /\ [][NextMarket]_vars

NonDecreasing(s) == \A i \in 1..(Len(s) - 1) : s[i] <= s[i + 1]

\* C28: getHistoricalPrices returns days + 1 samples, oldest first, whose
\* trend component rises slightly from the oldest sample to the newest:
\* with the random and the seasonal factor held at 1 the series is
\* non-decreasing in time, and analyzePriceTrends never finds it 'bearish'.
C28_SlightUpwardTrend ==
    (/\ lastCall.op = "getHistoricalPrices"
     /\ lastCall.seasonalFactor = 10
     /\ lastCall.volatilityFactor = 10)
    => /\ Len(lastCall.prices) = lastCall.days + 1
       /\ NonDecreasing(lastCall.prices)
       /\ analyzePriceTrends(lastCall.prices) # "bearish"

-----------------------------------------------------------------------------
(* What an ingest writes: processSensorData of iot-service.ts, with        *)
(* readings of two farms and two sensor types, one request at a time.      *)

FrameReadings ==
    { [farmId |-> f, sensorId |-> "sensor_" \o t \o "_001",
       sensorType |-> t, timestamp |-> <<1, 0>>,
       readings |-> [value |-> 100, batteryLevel |-> b]] :
        f \in Farms, t \in {"soil_moisture", "soil_ph"},
        b \in {Some(0), Some(50)} }

NextIngestFrame ==
    \/ \E p \in Procs, sd \in FrameReadings : BeginIngestAlone(p, sd)
    \/ \E p \in Procs : SetLatest(p)
    \/ \E p \in Procs : GetAggregate(p)
    \/ \E p \in Procs : SetAggregate(p)
    \/ NextDay

SpecIngestFrame == InitIngest /\ [][NextIngestFrame]_vars

\* the store new is the store old but for the value at key
OnlyAt(old, new, key) ==
    /\ DOMAIN new = DOMAIN old \cup {key}
    /\ \A k \in DOMAIN old \ {key} : new[k] = old[k]

-----------------------------------------------------------------------------
(* The crop-diagnosis panel: components/CropDiagnosis.tsx.  A file handed  *)
(* in is read by a FileReader; when it has loaded, the image is selected   *)
(* and its analysis requested; the request completes later.  An upload,    *)
(* a reset and a completion are each one event of the page.                *)

MaxUploads == 3

FileTypes == {"image/png", "text/plain"}

isImage(fileType) == fileType \in {"image/png", "image/jpeg"}

\* handleImageUpload: the upload area is shown while no image is selected;
\* a file that is not an image is ignored
HandleImageUpload(fileType) ==
    /\ panel.selectedImage = None
    /\ panel.uploads < MaxUploads
    /\ IF isImage(fileType)
       THEN panel' = [panel EXCEPT !.readers = @ \cup {panel.uploads + 1},
                                   !.uploads = @ + 1,
                                   !.fresh = TRUE]
       ELSE panel' = [panel EXCEPT !.uploads = @ + 1]
    /\ UNCHANGED <<notifVars, indexVars, profileVars, notifCalls, market, clientVars, iotVars, today, now, lastCall>>

\* reader.onload: setSelectedImage, then analyzeImage up to its await
ReaderLoaded(file) ==
    /\ file \in panel.readers
    /\ panel' = [panel EXCEPT !.readers = @ \ {file},
                              !.selectedImage = Some(file),
                              !.analyzing = TRUE,
                              !.results = None,
                              !.requests = @ \cup {file}]
    /\ UNCHANGED <<notifVars, indexVars, profileVars, notifCalls, market, clientVars, iotVars, today, now, lastCall>>

\* analyzeImage from its await on: the results of the analysis, or the
\* mock results when the request failed; then setAnalyzing(false)
AnalysisCompletes(request, ok) ==
    /\ request \in panel.requests
    /\ panel' = [panel EXCEPT !.requests = @ \ {request},
                              !.results = Some([image |-> request,
                                                source |-> IF ok THEN "analysis" ELSE "mock"]),
                              !.analyzing = FALSE]
    /\ UNCHANGED <<notifVars, indexVars, profileVars, notifCalls, market, clientVars, iotVars, today, now, lastCall>>

\* resetDiagnosis: its button is shown while an image is selected
ResetDiagnosis ==
    /\ panel.selectedImage # None
    /\ panel' = [panel EXCEPT !.selectedImage = None,
                              !.results = None,
                              !.analyzing = FALSE,
                              !.fresh = FALSE]
    /\ UNCHANGED <<notifVars, indexVars, profileVars, notifCalls, market, clientVars, iotVars, today, now, lastCall>>

NextPanel ==
    \/ \E fileType \in FileTypes : HandleImageUpload(fileType)
    \/ \E file \in 1..MaxUploads : ReaderLoaded(file)
    \/ \E request \in 1..MaxUploads, ok \in BOOLEAN : AnalysisCompletes(request, ok)
    \/ ResetDiagnosis

SpecPanel == InitCap /\ [][NextPanel]_vars

\* C30: in the crop-diagnosis panel analyzing is true exactly while an
\* analysis request is in flight, and after resetDiagnosis the results stay
\* empty until a new image is uploaded, whatever the order of uploads,
\* resets and completions.
C30_AnalyzingExactlyInFlight ==
    /\ panel.analyzing <=> panel.requests # {}
    /\ ~panel.fresh => panel.results = None

=============================================================================
